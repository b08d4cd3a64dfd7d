---------------------------- MODULE NormalizeKeys ---------------------------
(***************************************************************************)
(* The scanner that makes a broker's answer standard JSON: normalizeKeys   *)
(* of internal/rmqremote/fastjson.go with captureValue, scanNumber,        *)
(* scanKeyword and escapeForString.                                        *)
(*                                                                         *)
(* Brokers write the keys of a Map<Long, V> and of a Map<MessageQueue, V>  *)
(* without quotes, as a number or as a whole object.  The scanner runs     *)
(* over the body once and quotes the keys that are bare; everything else   *)
(* it copies.  A body is a sequence of bytes, each named by a string of    *)
(* one character; one step is one turn of the loop.                        *)
(***************************************************************************)
EXTENDS Integers, Sequences, FiniteSetsExt

VARIABLES
  b,         \* the body
  standard,  \* history: the body in standard JSON, <<>> for garbage
  i,         \* the next byte
  out,
  stack,     \* the open containers, "o" or "a"
  st,        \* "key", "colon", "value" or "after": pstate
  inString, escaped,
  returned

vars == <<b, standard, i, out, stack, st, inString, escaped, returned>>

\* The bytes that start a keyword, that go on with it, that start a number
\* and that go on with it; "+" stands for the dot and the exponent too.
Keyword == {"t", "f", "n"}
Letter == Keyword \cup {"k"}
Digit == {"-", "0", "1"}
Number == Digit \cup {"+"}
Structure == {"{", "}", "[", "]", ":", ",", "\""}

-----------------------------------------------------------------------------
(* The helpers.                                                            *)

Quoted(s) == <<"\"">> \o s \o <<"\"">>

\* Mutant of Scan: the quotes inside a captured key are not noticed.
ScanNoStrings(open, close, p, c) ==
  IF p.ok THEN p
  ELSE [p EXCEPT !.next = @ + 1,
                 !.depth = IF c = open THEN @ + 1 ELSE IF c = close THEN @ - 1 ELSE @,
                 !.ok = c = close /\ p.depth = 1]

\* One turn of captureValue's loop.
Scan(open, close, p, c) ==
  IF p.ok THEN p
  ELSE IF p.inStr
  THEN [p EXCEPT !.next = @ + 1,
                 !.esc = ~ p.esc /\ c = "\\",
                 !.inStr = p.esc \/ c # "\""]
  ELSE [p EXCEPT !.next = @ + 1,
                 !.inStr = c = "\"",
                 !.depth = IF c = open THEN @ + 1 ELSE IF c = close THEN @ - 1 ELSE @,
                 !.ok = c = close /\ p.depth = 1]

\* The value that starts at byte j: where it ends, if it does.
captureValue(j) ==
  LET P[k \in 0 .. Len(b)] ==
        IF k < j
        THEN [next |-> j, depth |-> 0, inStr |-> FALSE, esc |-> FALSE, ok |-> FALSE]
        ELSE Scan(b[j], IF b[j] = "[" THEN "]" ELSE "}", P[k - 1], b[k])
  IN  P[Len(b)]

\* The first byte from j on that is not in S.
EndOf(j, S) == Min({k \in j .. Len(b) : b[k] \notin S} \cup {Len(b) + 1})

ReplaceEach(s, c, r) ==
  LET R[k \in 0 .. Len(s)] ==
        IF k = 0 THEN <<>> ELSE R[k - 1] \o (IF s[k] = c THEN r ELSE <<s[k]>>)
  IN  R[Len(s)]

escapeForString(token) ==
  ReplaceEach(ReplaceEach(token, "\\", <<"\\", "\\">>), "\"", <<"\\", "\"">>)

-----------------------------------------------------------------------------
\* Before the first byte of a body.
Init ==
  /\ i = 1
  /\ out = <<>>
  /\ stack = <<>>
  /\ st = "value"
  /\ inString = FALSE
  /\ escaped = FALSE
  /\ returned = FALSE

Emit(s, next) ==
  /\ out' = out \o s
  /\ i' = next
  /\ UNCHANGED <<b, standard>>

\* A byte of a string; the one after a backslash closes nothing.
StringByte ==
  /\ ~ returned /\ i <= Len(b) /\ inString
  /\ escaped \/ b[i] # "\""
  /\ Emit(<<b[i]>>, i + 1)
  /\ escaped' = (~ escaped /\ b[i] = "\\")
  /\ UNCHANGED <<stack, st, inString, returned>>

StringEnd ==
  /\ ~ returned /\ i <= Len(b) /\ inString
  /\ ~ escaped /\ b[i] = "\""
  /\ Emit(<<b[i]>>, i + 1)
  /\ inString' = FALSE
  /\ st' = CASE st = "key"   -> "colon"
             [] st = "value" -> "after"
             [] OTHER        -> st
  /\ UNCHANGED <<stack, escaped, returned>>

At(S) == ~ returned /\ i <= Len(b) /\ ~ inString /\ b[i] \in S

StringStart ==
  /\ At({"\""})
  /\ Emit(<<b[i]>>, i + 1)
  /\ inString' = TRUE
  /\ UNCHANGED <<stack, st, escaped, returned>>

Colon ==
  /\ At({":"})
  /\ Emit(<<b[i]>>, i + 1)
  /\ st' = "value"
  /\ UNCHANGED <<stack, inString, escaped, returned>>

\* An object or an array that is a key.
CaptureKey ==
  /\ At({"{", "["}) /\ st = "key"
  /\ LET v == captureValue(i)
     IN  /\ v.ok
         /\ Emit(Quoted(escapeForString(SubSeq(b, i, v.next - 1))), v.next)
  /\ st' = "colon"
  /\ UNCHANGED <<stack, inString, escaped, returned>>

\* Mutant of CaptureNothing: what has no end is dropped.
CaptureDropped ==
  /\ At({"{", "["}) /\ st = "key"
  /\ ~ captureValue(i).ok
  /\ returned' = TRUE
  /\ UNCHANGED <<b, standard, i, out, stack, st, inString, escaped>>

\* It has no end: the rest is copied as it is.
CaptureNothing ==
  /\ At({"{", "["}) /\ st = "key"
  /\ ~ captureValue(i).ok
  /\ Emit(SubSeq(b, i, Len(b)), i)
  /\ returned' = TRUE
  /\ UNCHANGED <<stack, st, inString, escaped>>

Open ==
  /\ At({"{", "["}) /\ st # "key"
  /\ Emit(<<b[i]>>, i + 1)
  /\ stack' = Append(stack, IF b[i] = "{" THEN "o" ELSE "a")
  /\ st' = IF b[i] = "{" THEN "key" ELSE "value"
  /\ UNCHANGED <<inString, escaped, returned>>

Close ==
  /\ At({"}", "]"})
  /\ Emit(<<b[i]>>, i + 1)
  /\ stack' = IF stack = <<>> THEN stack ELSE SubSeq(stack, 1, Len(stack) - 1)
  /\ st' = "after"
  /\ UNCHANGED <<inString, escaped, returned>>

Comma ==
  /\ At({","})
  /\ Emit(<<b[i]>>, i + 1)
  /\ st' = IF stack # <<>> /\ stack[Len(stack)] = "o" THEN "key" ELSE "value"
  /\ UNCHANGED <<stack, inString, escaped, returned>>

scanKeyword ==
  /\ At(Keyword)
  /\ Emit(SubSeq(b, i, EndOf(i, Letter) - 1), EndOf(i, Letter))
  /\ st' = "after"
  /\ UNCHANGED <<stack, inString, escaped, returned>>

scanNumber ==
  /\ At(Digit)
  /\ LET next == EndOf(i, Number)
         token == SubSeq(b, i, next - 1)
     IN  Emit(IF st = "key" THEN Quoted(token) ELSE token, next)
  /\ st' = IF st = "key" THEN "colon" ELSE "after"
  /\ UNCHANGED <<stack, inString, escaped, returned>>

\* White space, and any byte that starts nothing.
Copy ==
  /\ ~ returned /\ i <= Len(b) /\ ~ inString
  /\ b[i] \notin Structure \cup Keyword \cup Digit
  /\ Emit(<<b[i]>>, i + 1)
  /\ UNCHANGED <<stack, st, inString, escaped, returned>>

Return ==
  /\ ~ returned /\ i > Len(b)
  /\ returned' = TRUE
  /\ UNCHANGED <<b, standard, i, out, stack, st, inString, escaped>>

\* The caller has the output.
Done == returned /\ UNCHANGED vars

Next ==
  \/ StringByte \/ StringEnd \/ StringStart \/ Colon
  \/ CaptureKey \/ CaptureNothing \/ Open \/ Close \/ Comma
  \/ scanKeyword \/ scanNumber \/ Copy \/ Return
  \/ Done

-----------------------------------------------------------------------------
(* What the scanner promises.                                              *)

\* Every answer a broker writes comes out as the same document in standard
\* JSON: bare keys at any depth are quoted and decode to the bytes the
\* broker wrote, and numbers, objects and arrays that are values, and
\* braces, colons and quotes inside strings, are left alone.
Normalized == returned /\ standard # <<>> => out = standard

\* Whatever the body, the bytes read so far are all in the output, in
\* order; when the scanner returns these are all the bytes there are, also
\* when it gave up on a key that has no end.
NothingLost ==
  LET seen == IF returned THEN b ELSE SubSeq(b, 1, i - 1)
      Found[k \in 0 .. Len(out)] ==   \* of seen, in the first k bytes of out
        IF k = 0 THEN 0
        ELSE LET n == Found[k - 1]
             IN  IF n < Len(seen) /\ seen[n + 1] = out[k] THEN n + 1 ELSE n
  IN  Found[Len(out)] = Len(seen)

=============================================================================
