---------------------------- MODULE LimiterFile ----------------------------
(***************************************************************************)
(* internal/config/file.go and build.go: the limiter file is validated as  *)
(* a whole, then turned into limiters.  A file is [response, limiters], a  *)
(* limiter [name, window, bucket, key, paths, methods, dryRun, retryAfter, *)
(* response].  Absent parts (nil pointers) are the empty sequence <<>>,    *)
(* present ones a sequence of one.  A number is 0 below its bounds, 1      *)
(* within, 2 above.  A path is a sequence of characters, a method a record *)
(* of its letters and their case, a file name what is at the path.         *)
(***************************************************************************)
EXTENDS Settings, SequencesExt

CONSTANTS
    Chars,     \* the characters of texts
    Names,     \* the names that nameRe accepts
    KeyLevels  \* the key specifications of the files, by how deep they nest

Present(part) == part # <<>>
Value(part)   == part[1]

InBounds(n) == n = 1

validName(name) == name \in Names

(***************************************************************************)
(* A key specification: body is a dotted path, header and query are lists  *)
(* of names, first and composite lists of key specifications.              *)
(***************************************************************************)
Sources == {"body", "header", "query", "first", "composite"}

sources(k) == {s \in Sources : k[s] # <<>>}

Normalisers == {Blank, "none", "digits", "lower", "trim", "ipsubnet"}

Parts(k) == ToSet(k.first) \union ToSet(k.composite)

KeySpecs == UNION {KeyLevels[n] : n \in 1..Len(KeyLevels)}

\* A document is finite: a key's parts nest less deep than the key.
ASSUME KeysAssumption ==
    /\ Len(KeyLevels) \in Nat
    /\ \A n \in 1..Len(KeyLevels) : \A k \in KeyLevels[n] :
          /\ k.hash \in BOOLEAN /\ k.separator \in Chars \union {Blank}
          /\ k.header \in Seq(Chars) /\ k.query \in Seq(Chars)
          /\ k.first \in Seq(KeySpecs) /\ k.composite \in Seq(KeySpecs)
          /\ \A p \in Parts(k) : \E m \in 1..(n - 1) : p \in KeyLevels[m]

validKey(key) ==
    LET valid[k \in KeySpecs] ==
            /\ \E s \in Sources : sources(k) = {s}
            /\ k.separator = Blank \/ k.composite # <<>>
            /\ k.normalise \in Normalisers
            /\ \A p \in Parts(k) : valid[p]
            /\ Len(k.composite) # 1
    IN  valid[key]

TrimSuffix(s, suffix) ==
    IF IsSuffix(suffix, s) THEN SubSeq(s, 1, Len(s) - Len(suffix)) ELSE s

validPath(p) ==
    /\ p # <<>> /\ p[1] = "/"
    /\ ~Contains(TrimSuffix(p, <<"/", "*">>), "*")

\* Duplicates are found after folding; an empty or ill-formed method is none.
validMethods(ms) ==
    /\ \A i \in DOMAIN ms : ms[i].verb # Blank
    /\ \A i, j \in DOMAIN ms : ms[i].verb = ms[j].verb => i = j

validResponse(r) ==
    /\ r.status = 0 \/ r.status \in 400..599
    /\ r.body = Blank \/ r.bodyFile = Blank
    /\ r.bodyFile # "missing"

validAlgorithm(l) ==
    /\ Present(l.window) # Present(l.bucket)
    /\ Present(l.window) => \A f \in {"limit", "window", "block"} : InBounds(Value(l.window)[f])
    /\ Present(l.bucket) => \A f \in {"rate", "burst"} : InBounds(Value(l.bucket)[f])

validLimiter(l) ==
    /\ validName(l.name)
    /\ validAlgorithm(l)
    /\ Present(l.key) /\ validKey(Value(l.key))
    /\ \A i \in DOMAIN l.paths : validPath(l.paths[i])
    /\ validMethods(l.methods)
    /\ Present(l.response) => validResponse(Value(l.response))

\* File.Validate
Validate(f) ==
    /\ f.limiters # <<>>
    /\ Present(f.response) => validResponse(Value(f.response))
    /\ \A i \in DOMAIN f.limiters : validLimiter(f.limiters[i])
    /\ \A i, j \in DOMAIN f.limiters : f.limiters[i].name = f.limiters[j].name => i = j

Responses == [status : Int, contentType : STRING, body : STRING, bodyFile : STRING]

LimiterSpecs ==
    [name : STRING, window : Seq([limit : Int, window : Int, block : Int]),
     bucket : Seq([rate : Int, burst : Int]), key : Seq(KeySpecs),
     paths : Seq(Seq(Chars)), methods : Seq([verb : STRING, case : STRING]),
     dryRun : BOOLEAN, retryAfter : BOOLEAN, response : Seq(Responses)]

\* What decoding yields.
IsFile(f) ==
    /\ f.decodes \in BOOLEAN
    /\ f.limiters \in Seq(LimiterSpecs)
    /\ f.response \in Seq(Responses)

(***************************************************************************)
(* Build                                                                   *)
(***************************************************************************)
DefaultResponse == [status |-> 429, contentType |-> "json", body |-> "rate_limited"]

\* os.ReadFile of a directory fails, although os.Stat found it.
ReadFails(r) == r.bodyFile \in {"dir", "missing"}

\* Of a file or a limiter.
Unreadable(spec) == Present(spec.response) /\ ReadFails(Value(spec.response))

Contents(file) == IF file = "empty" THEN Blank ELSE file

resolveResponse(r, base) ==
    [status      |-> IF r.status # 0 THEN r.status ELSE base.status,
     contentType |-> IF r.contentType # Blank THEN r.contentType ELSE base.contentType,
     body        |-> CASE r.bodyFile # Blank -> Contents(r.bodyFile)
                       [] r.bodyFile = Blank /\ r.body # Blank -> r.body
                       [] OTHER -> base.body]

\* Mutant: only the root of the key is asked.
needsHashRoot(key) == key.hash

needsHash(key) ==
    LET needs[k \in KeySpecs] == k.hash \/ \E p \in Parts(k) : needs[p]
    IN  needs[key]

Buildable(l, secret) == ~needsHash(Value(l.key)) \/ secret # Blank

\* Rule.Valid and Bucket.Valid of what Build copies into the Limiter.
BuiltLimiter(l) ==
    [name    |-> l.name, key |-> Value(l.key), paths |-> l.paths, methods |-> l.methods,
     dryRun  |-> l.dryRun, advise |-> l.retryAfter,
     rule    |-> Present(l.window) /\ \A f \in {"limit", "window", "block"} : Value(l.window)[f] > 0,
     bucket  |-> ~Present(l.window) /\ \A f \in {"rate", "burst"} : Value(l.bucket)[f] > 0]

BuiltDefault(f) ==
    IF Present(f.response) THEN resolveResponse(Value(f.response), DefaultResponse)
    ELSE DefaultResponse

\* Mutant: an override inherits from the built-in response.
OverrideFromBuiltin(b, l) == resolveResponse(Value(l.response), DefaultResponse)

Override(b, l) == resolveResponse(Value(l.response), b.default)

NewBuilt(f) ==
    [limiters |-> <<>>, responses |-> <<>>, default |-> BuiltDefault(f), warnings |-> {}]

Disable(b, l) == [b EXCEPT !.warnings = @ \union {l.name}]

Add(b, l) ==
    [b EXCEPT !.limiters = Append(@, BuiltLimiter(l)),
              !.responses = IF ~Present(l.response) THEN b.responses
                            ELSE [n \in DOMAIN b.responses \union {l.name} |->
                                     IF n = l.name THEN Override(b, l) ELSE b.responses[n]]]

Close(b) ==
    [b EXCEPT !.warnings = IF b.limiters = <<>> THEN @ \union {"no limiters"} ELSE @]
=============================================================================
