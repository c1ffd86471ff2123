----------------------------- MODULE HttpParse ------------------------------
(***************************************************************************)
(* A request on its way through the proxy as text: HTTPRequest::parse and  *)
(* URL::parse_raw_url read what the client sent, ModReverseProxy::handle   *)
(* changes the request, HTTPRequest::generate_to writes it again, and the  *)
(* upstream reads it, by the same rules (src/http_parser.cpp).             *)
(*                                                                         *)
(* URLs are sequences of byte codes.  The other parts of a request are     *)
(* members of small sets that tell apart what the parser tells apart.      *)
(***************************************************************************)
EXTENDS Integers, Sequences, FiniteSets

CONSTANT
    MaxSize     \* bound: characters of the URL, a header line counts as two

ASSUME HttpParseConstants == MaxSize \in Nat

VARIABLES
    phase,      \* "typing", "read", "forwarded" or "refused"
    text,       \* what the client sends
    req,        \* pending_request
    param,      \* the value of the location's parameter "path", or NoParam
    seen        \* what the upstream reads

vars == <<phase, text, req, param, seen>>

-----------------------------------------------------------------------------
(* URL::parse_raw_url *)

Blank == 32
Percent == 37
Plus == 43
Slash == 47
Query == 63
Unknown == 256   \* a byte from somewhere else

\* Mutant: the letters are one off.
Mut_Hex(c) == CASE c \in 48..57  -> c - 48
                [] c \in 65..70  -> c - 54
                [] OTHER         -> 16

Hex(c) == CASE c \in 48..57  -> c - 48
            [] c \in 65..70  -> c - 55
            [] c \in 97..102 -> c - 87
            [] OTHER         -> 16

\* strtol(ch,&endptr,16) of two characters: the value and endptr - ch.  A sign
\* or a blank before a digit is accepted.
Strtol(c, d) ==
    IF Hex(c) < 16
      THEN IF Hex(d) < 16 THEN [val |-> 16 * Hex(c) + Hex(d), used |-> 2]
           ELSE [val |-> Hex(c), used |-> 1]
    ELSE IF c \in {Plus, Blank} /\ Hex(d) < 16 THEN [val |-> Hex(d), used |-> 2]
    ELSE [val |-> 0, used |-> 0]

acceptable(ch) == ch \in {9, 10, 13} \/ (ch > 31 /\ ch # 127 /\ ch <= 255)

\* raw.find("?"), or -1.
Original(raw) ==
    LET hits == {n \in 1..Len(raw) : raw[n] = Query}
    IN  IF hits = {} THEN -1 ELSE (CHOOSE n \in hits : \A m \in hits : n <= m) - 1

\* i <= original compares unsigned numbers: -1 is larger than every i.
InFront(i, original) == original = -1 \/ i <= original

\* The byte behind the view is the blank of the request line.
At(raw, i) == IF i < Len(raw) THEN raw[i + 1] ELSE Blank

\* Mutant: the two digits are not taken into account.
Mut_Escape(raw, s, original) ==
    LET n == Strtol(At(raw, s.i + 1), At(raw, s.i + 2))
    IN  IF n.used = 2 /\ acceptable(n.val)
          THEN [i |-> s.i + 3, full |-> Append(s.full, n.val),
                pos |-> IF InFront(s.i + 2, original) THEN s.pos - 1 ELSE s.pos]
          ELSE [i |-> s.i + 1 + n.used, full |-> s.full, pos |-> s.pos]

\* "%" and what follows it.  A bad escape is dropped as far as strtol came, and
\* pos moves by (endptr - ch) - 1.
Escape(raw, s, original) ==
    LET n == Strtol(At(raw, s.i + 1), At(raw, s.i + 2))
        front == InFront(s.i + 2, original)
    IN  IF n.used = 2 /\ acceptable(n.val)
          THEN [i |-> s.i + 3, full |-> Append(s.full, n.val),
                pos |-> IF front THEN s.pos - 2 ELSE s.pos]
          ELSE [i |-> s.i + 1 + n.used, full |-> s.full,
                pos |-> IF front THEN s.pos - (n.used - 1) ELSE s.pos]

\* One iteration of the loop; a "%" at the very end stops it.
UrlStep(raw, s, original) ==
    LET c == raw[s.i + 1] IN
    IF c = Percent
      THEN IF Len(raw) - s.i < 2 THEN [s EXCEPT !.i = Len(raw)]
           ELSE Escape(raw, s, original)
      ELSE [i |-> s.i + 1, pos |-> s.pos,
            full |-> Append(s.full, IF c = Plus THEN Blank ELSE c)]

\* main_path is a view of pos bytes, whether full_path has them or not.
View(full, pos) ==
    IF pos < 0 \/ full = <<>> THEN full
    ELSE [n \in 1..pos |-> IF n <= Len(full) THEN full[n] ELSE Unknown]

ParseRawUrl(raw) ==
    LET original == Original(raw)
        loop[n \in 0..Len(raw)] ==
          IF n = 0 THEN [i |-> 0, pos |-> original, full |-> <<>>]
          ELSE LET s == loop[n - 1] IN
               IF s.i >= Len(raw) THEN s ELSE UrlStep(raw, s, original)
        last == loop[Len(raw)]
    IN  [raw_path  |-> IF raw # <<>> /\ raw[1] = Slash THEN raw ELSE <<Slash>> \o raw,
         full_path |-> last.full,
         main_path |-> View(last.full, last.pos)]

-----------------------------------------------------------------------------
(* Methods *)

Methods == {"GET", "POST", "HEAD", "OPTIONS", "CONNECT", "TRACE", "PUT", "PATCH", "DELETE"}

\* A method word: the letters of a method, exactly, without the last one, or
\* with one more.
Words == [of : Methods, tail : {"exact", "short", "long"}]

\* strncmp looks at a prefix: what follows a method is ignored, five letters of
\* CONNECT are enough, and the sixth of TRACE is the end of the literal, which
\* no text with a blank behind the method has.
getMethod(w) ==
    IF w.of # "TRACE" /\ (w.of = "CONNECT" \/ w.tail # "short") THEN w.of
    ELSE "InvalidMethod"

getMethodString(method) == [of |-> method, tail |-> "exact"]

-----------------------------------------------------------------------------
(* HTTPRequest::parse *)

\* A header line: a key, blanks and a value, or something that is none.
Lines == [form : {"field"}, key : {"Host", "X-Forwarded-For", "X-Forwarded-Host", "Other"},
          blanks : {33}, value : {"v", "w"}]
           \cup [form : {"field"}, key : {"Other"}, blanks : {34}, value : {"v"}]
           \cup [form : {"blank first", "no colon", "bad key"}]

\* The blank between URL and version may be missing; numbers above 999 cannot
\* be written; no minor number is none.
NoNumber == -1
Versions == {<<1, 1>>, <<1, 0>>, <<2, NoNumber>>, <<1000, 1>>}

NoRequest == [code |-> "none"]
NoParam == <<>>     \* no value is empty
Refused(code) == [code |-> code]

\* emplace keeps the first value of a key.
Emplace(hs, key, value) == IF \E h \in hs : h[1] = key THEN hs ELSE hs \cup {<<key, value>>}

\* The headers of the lines, or the ParseCode of the first that has none.
ParseLines(lines) ==
    LET upto[n \in 0..Len(lines)] ==
          IF n = 0 THEN [code |-> "Success", headers |-> {}]
          ELSE LET l == lines[n]
                   s == upto[n - 1]
               IN
               IF s.code # "Success" THEN s
               ELSE CASE l.form = "blank first" -> Refused("SpaceInTheFrontOfHeader")
                      [] l.form = "no colon"    -> Refused("InvalidFormat")
                      [] l.form = "bad key"     -> Refused("InvalidKeyName")
                      [] l.form = "field" ->
                           IF l.blanks > 33 THEN Refused("TooManySpaces")
                           ELSE [code |-> "Success",
                                 headers |-> Emplace(s.headers, l.key, l.value)]
    IN upto[Len(lines)]

\* Without its second blank the text is its own URL: npos + oldpos is not npos.
UrlText(t) == IF t.second THEN t.url ELSE <<Unknown>>

\* HTTPVersion is 1.1 until something else is read.
Parse(t) ==
    LET method == getMethod(t.word)
        lines  == ParseLines(t.lines)
    IN  IF method = "InvalidMethod" THEN Refused("InvalidMethod")
        ELSE IF t.major = NoNumber THEN Refused("InvalidFormat")
        ELSE IF lines.code # "Success" THEN lines
        ELSE [code    |-> "Success", method |-> method,
              url     |-> ParseRawUrl(UrlText(t)),
              version |-> <<t.major, IF t.minor = NoNumber THEN 1 ELSE t.minor>>,
              headers |-> lines.headers]

-----------------------------------------------------------------------------
(* HTTPRequest::generate *)

append_num(num) == IF num < 1000 THEN num ELSE NoNumber

\* A blank in the URL ends it for the reader.
Cut(url) ==
    LET ends == {n \in 1..Len(url) : url[n] = Blank}
    IN  IF ends = {} THEN url
        ELSE SubSeq(url, 1, (CHOOSE n \in ends : \A m \in ends : n <= m) - 1)

\* The headers of the map, one line each, in some order.
Order(hs) == CHOOSE s \in [1..Cardinality(hs) -> hs] : \A h \in hs : \E n \in DOMAIN s : s[n] = h

\* Mutant: the decoded path is written.
Mut_UrlToSend(r) == r.url.full_path

UrlToSend(r) == r.url.raw_path

generate(r) ==
    LET url == UrlToSend(r) IN
    [word   |-> getMethodString(r.method),
     url    |-> Cut(url), second |-> TRUE,
     major  |-> IF Cut(url) # url THEN NoNumber ELSE append_num(r.version[1]),
     minor  |-> IF r.version[2] = 0 THEN NoNumber ELSE append_num(r.version[2]),
     lines  |-> [n \in 1..Cardinality(r.headers) |->
                   [form |-> "field", key |-> Order(r.headers)[n][1], blanks |-> 1,
                    value |-> Order(r.headers)[n][2]]]]

-----------------------------------------------------------------------------
(* The way of a request *)

UrlChars == {Percent, Query, Plus, Slash, 48, 50, 70, 122}   \* % ? + / 0 2 F z

Size(t) == Len(t.url) + 2 * Len(t.lines)

Init ==
    /\ phase = "typing"
    /\ \E w \in Words, v \in Versions, s \in BOOLEAN :
         /\ w \in [of : {"GET"}, tail : {"exact"}] \/ (v = <<1, 1>> /\ s)
         /\ text = [word |-> w, url |-> <<>>, second |-> s, major |-> v[1],
                    minor |-> v[2], lines |-> <<>>]
    /\ req = NoRequest /\ param = NoParam /\ seen = NoRequest

\* Only a plain GET has a URL of any length.
Ordinary(t) == t.word = getMethodString("GET") /\ t.second /\ <<t.major, t.minor>> = <<1, 1>>

TypeUrl(c) ==
    /\ phase = "typing" /\ Size(text) < MaxSize
    /\ Ordinary(text) \/ text.url = <<>>
    /\ text.lines = <<>>
    /\ text' = [text EXCEPT !.url = Append(@, c)]
    /\ UNCHANGED <<phase, req, param, seen>>

TypeLine(l) ==
    /\ phase = "typing" /\ Size(text) + 2 <= MaxSize
    /\ text' = [text EXCEPT !.lines = Append(@, l)]
    /\ UNCHANGED <<phase, req, param, seen>>

Receive ==
    /\ phase = "typing"
    /\ req' = Parse(text)
    /\ phase' = IF req'.code = "Success" THEN "read" ELSE "refused"
    /\ UNCHANGED <<text, param, seen>>

\* headers[key] = value, for each of the pairs.
Assign(hs, pairs) == {h \in hs : \A p \in pairs : h[1] # p[1]} \cup pairs

\* What handle() says of the client, whatever the client said of itself.
Overwritten == {<<"Host", "localhost:7000">>, <<"X-Forwarded-For", "127.0.0.1">>,
                <<"X-Forwarded-Host", "localhost:9191">>}

\* Mutant: what the client says of itself is kept.
Mut_Proxied(r, value) ==
    [r EXCEPT !.headers = @ \cup {p \in Overwritten : \A h \in @ : h[1] # p[1]},
              !.url = IF value = NoParam THEN @ ELSE ParseRawUrl(value)]

\* ModReverseProxy::handle: the headers, and the decoded value of the parameter
\* "path", if there is one, as the new URL.
Proxied(r, value) ==
    [r EXCEPT !.headers = Assign(@, Overwritten),
              !.url = IF value = NoParam THEN @ ELSE ParseRawUrl(value)]

Slashed(path) == IF path # <<>> /\ path[1] = Slash THEN path ELSE <<Slash>> \o path

\* No empty segments: what a lookup makes of those is module Router.
Segmented(path) ==
    \A n \in 1..Len(path) : path[n] = Slash => n < Len(path) /\ path[n + 1] # Slash

\* The values a parameter of a location can get from a path, wherever it stands:
\* one segment, or at the end of the location all that is left.
ParamValues(path) ==
    LET slashes == {n \in 1..Len(path) : path[n] = Slash}
        bounds  == {b \in slashes \X (slashes \cup {Len(path) + 1}) :
                      b[1] < b[2] /\ (b[2] <= Len(path) =>
                                        \A n \in slashes : ~(b[1] < n /\ n < b[2]))}
    IN  {SubSeq(path, b[1] + 1, b[2] - 1) : b \in bounds}

\* The location may have no parameter "path".
Forward ==
    /\ phase = "read" /\ req.url.main_path # <<>>
    /\ LET path == Slashed(req.url.main_path)
       IN  param' \in {NoParam} \cup (IF Segmented(path) THEN ParamValues(path) ELSE {})
    /\ req' = Proxied(req, param')
    /\ seen' = Parse(generate(req'))
    /\ phase' = "forwarded"
    /\ UNCHANGED text

\* EmptyURL: 404.
NoRoute ==
    /\ phase = "read" /\ req.url.main_path = <<>>
    /\ phase' = "refused"
    /\ UNCHANGED <<text, req, param, seen>>

Done == phase \in {"refused", "forwarded"} /\ UNCHANGED vars

Next == \/ \E c \in UrlChars : TypeUrl(c)
        \/ \E l \in Lines : TypeLine(l)
        \/ Receive \/ Forward \/ NoRoute \/ Done

Spec == Init /\ [][Next]_vars

-----------------------------------------------------------------------------
(* Properties *)

BeforeQuery(raw) == IF Original(raw) = -1 THEN raw ELSE SubSeq(raw, 1, Original(raw))

\* "decoded url that discarded args": the main path is the decoding of what
\* stands before the question mark.
MainPathRight ==
    phase = "typing" =>
        ParseRawUrl(text.url).main_path = ParseRawUrl(BeforeQuery(text.url)).full_path

Escapes(raw) ==
    \A n \in 1..Len(raw) : raw[n] = Percent =>
        /\ n + 2 <= Len(raw)
        /\ Hex(raw[n + 1]) < 16 /\ Hex(raw[n + 2]) < 16
        /\ acceptable(16 * Hex(raw[n + 1]) + Hex(raw[n + 2]))

\* It is, whenever every "%" before the question mark starts a proper escape of
\* an acceptable byte, whatever follows the question mark.
MainPathIfEscaped ==
    phase = "typing" /\ Escapes(BeforeQuery(text.url)) => MainPathRight

Digit(h) == IF h < 10 THEN 48 + h ELSE 55 + h
Encoded(w) == [n \in 1..(3 * Len(w)) |->
                 LET c == w[(n + 2) \div 3] IN
                 CASE n % 3 = 1 -> Percent
                   [] n % 3 = 2 -> Digit(c \div 16)
                   [] OTHER     -> Digit(c % 16)]

\* A path that was encoded byte by byte is read back as it was, question marks
\* and percent signs included, and a query behind it stays out of it.
UrlRoundTrip ==
    phase = "typing" =>
        /\ ParseRawUrl(Encoded(text.url)).full_path = text.url
        /\ ParseRawUrl(Encoded(text.url)).main_path = text.url
        /\ ParseRawUrl(Encoded(text.url) \o <<Query>> \o text.url).main_path = text.url

\* Bytes that mean something else in a URL or end it.
Delicate == {9, 10, 13, Blank, Percent, Plus, Query, Unknown}
Clean(path) == \A n \in 1..Len(path) : path[n] \notin Delicate

\* The headers that handle() does not overwrite.
OtherHeaders(hs) == {h \in hs : \A p \in Overwritten : h[1] # p[1]}

\* What the upstream reads is what the client asked for: the method, the version
\* unless its minor number is 0, the path, and the headers but the three that
\* handle() overwrites for every client.  A URL that stays as it was names the
\* same path again.  A parameter was decoded before it became the URL: it is
\* decoded a second time, which changes nothing in a clean value, and a blank in
\* it ends the URL too early, so that the upstream cannot read the request.
RequestKept ==
    LET r == Parse(text) IN
    phase = "forwarded" /\ text.second /\ r.version[1] < 1000 =>
      IF \E n \in 1..Len(param) : param[n] = Blank THEN seen.code = "InvalidFormat"
      ELSE /\ seen.code = "Success" /\ seen.method = r.method
           /\ seen.version = <<r.version[1], IF r.version[2] = 0 THEN 1 ELSE r.version[2]>>
           /\ OtherHeaders(seen.headers) = OtherHeaders(r.headers)
           /\ Overwritten \subseteq seen.headers
           /\ param = NoParam /\ r.url.raw_path = text.url =>
                seen.url.main_path = r.url.main_path
           /\ param # NoParam =>
                seen.url.main_path = ParseRawUrl(Slashed(param)).main_path
           /\ param # NoParam /\ Clean(param) => seen.url.main_path = Slashed(param)
=============================================================================
