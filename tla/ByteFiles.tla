----------------------------- MODULE ByteFiles -----------------------------
(***************************************************************************)
(* What the data path promises: files are independent sequences of bytes.  *)
(* A request moves the bytes of one file, from its offset on and in order, *)
(* until it moved all of them or the device failed; a change of size keeps *)
(* the bytes below both sizes.  What new bytes hold is left open, and so   *)
(* is what a read returns whose file is shrunk under it (a cut read).      *)
(***************************************************************************)
EXTENDS Integers, Sequences

CONSTANTS Threads, Files

VARIABLES
    content,    \* file -> its bytes
    io,         \* thread -> the request it serves
    failures    \* device errors met so far

vars == <<content, io, failures>>

Idle == [op |-> "none"]

Init ==
    /\ content = [f \in Files |-> <<>>]
    /\ io = [t \in Threads |-> Idle]
    /\ failures = 0

\* A request for bytes that are all there, or a read that was cut already.
Begin(t) ==
    LET r == io'[t] IN
    /\ io[t] = Idle /\ r # Idle
    /\ r.op \in {"read", "write", "cut"} /\ r.f \in Files
    /\ r.off >= 0 /\ r.n > 0 /\ r.buf = <<>>
    /\ r.op # "cut" => r.off + r.n <= Len(content[r.f])
    /\ r.op = "write" => Len(r.data) = r.n
    /\ io' = [io EXCEPT ![t] = r]
    /\ UNCHANGED <<content, failures>>

\* The next bytes of the request.  A read takes them from its own file, a write
\* puts those of its buffer there, a cut read may bring anything.
Transfer(t) ==
    LET r == io[t]
        buf == io'[t].buf
        first == r.off + Len(r.buf) + 1
        last == r.off + Len(buf)
    IN
    /\ r # Idle /\ io'[t] # Idle
    /\ last \in first .. r.off + r.n
    /\ io' = [io EXCEPT ![t].buf = buf]
    /\ SubSeq(buf, 1, Len(r.buf)) = r.buf
    /\ r.op = "read" => SubSeq(buf, Len(r.buf) + 1, Len(buf)) = SubSeq(content[r.f], first, last)
    /\ r.op = "write" => buf = SubSeq(r.data, 1, Len(buf))
    /\ content' = IF r.op # "write" THEN content
                  ELSE [content EXCEPT ![r.f] =
                            [i \in 1 .. Len(@) |->
                                IF i \in first .. last THEN r.data[i - r.off] ELSE @[i]]]
    /\ UNCHANGED failures

\* A request ends when it moved what was asked for, or the device failed.
End(t) ==
    /\ io[t] # Idle
    /\ Len(io[t].buf) = io[t].n \/ failures' = failures + 1
    /\ failures' \in {failures, failures + 1}
    /\ io' = [io EXCEPT ![t] = Idle]
    /\ UNCHANGED content

\* A file grows, and keeps its bytes ...
Grow(f) ==
    /\ Len(content'[f]) > Len(content[f])
    /\ SubSeq(content'[f], 1, Len(content[f])) = content[f]
    /\ content' = [content EXCEPT ![f] = content'[f]]
    /\ UNCHANGED <<io, failures>>

\* ... or shrinks to some of its bytes, which cuts the reads of it; no write is
\* under way then.
Shrink(f) ==
    /\ \A t \in Threads : io[t].op = "write" => io[t].f # f
    /\ \E n \in 0 .. Len(content[f]) - 1 :
          content' = [content EXCEPT ![f] = SubSeq(@, 1, n)]
    /\ io' = [t \in Threads |-> IF io[t].op = "read" /\ io[t].f = f
                               THEN [io[t] EXCEPT !.op = "cut"] ELSE io[t]]
    /\ UNCHANGED failures

\* A step that failed before it changed anything.
Fail == failures' = failures + 1 /\ UNCHANGED <<content, io>>

Next ==
    \/ \E t \in Threads : Begin(t) \/ Transfer(t) \/ End(t)
    \/ \E f \in Files : Grow(f) \/ Shrink(f)
    \/ Fail

Spec == Init /\ [][Next]_vars
=============================================================================
