------------------------ MODULE GenerationStream_proofs ------------------------
(***************************************************************************)
(* Proofs about GenerationStream, for any set of requests, any capacity of *)
(* the channel and any length of a generation: every caller hears its own  *)
(* stream, the pipes are at a boundary between requests, a cancel cuts     *)
(* short nothing that was submitted after it, and nothing but such a       *)
(* cancel makes the loop wait for itself.                                  *)
(***************************************************************************)
EXTENDS GenerationStream, SequenceTheorems, TLAPS

Commands == Requests \cup {Cancel}
StreamEvents == [req : Requests, terminal : BOOLEAN, n : Nat]

StreamTypeOK ==
  /\ caller \in [Requests -> {"unsent", "listening", "dropped", "ended"}]
  /\ cancelled \subseteq Requests /\ exposed \subseteq Requests /\ cut \subseteq Requests
  /\ heard \in [Requests -> Seq(StreamEvents)] /\ reply \in [Requests -> Seq(StreamEvents)]
  /\ chan \in Seq(Commands) /\ deferred \in Seq(Requests) /\ inflight \in Requests \cup {None}
  /\ write \in {"done", "begun", "stuck"}
  /\ stdin \in Seq(Commands) /\ lines \in Seq(Requests) /\ flag \in BOOLEAN
  /\ decoding \in Requests \cup {None} /\ decoded \in Nat
  /\ events \in Seq(StreamEvents) /\ stdout \in Seq(StreamEvents) /\ panics \in Nat

\* What was forwarded to a caller, and what is on its way to the loop.
Said(r) == heard[r] \o reply[r]
Pipe == stdout \o events

Endless(s) == \A i \in DOMAIN s : ~s[i].terminal
NoEnd == Endless(stdout) /\ Endless(events)

(***************************************************************************)
(* Custody of the requests. Each is in one of the manager's queues at most *)
(* once, before it owns the pipes; then it is in one place in the worker,  *)
(* or its terminal event is in the pipe, but never both. This also holds   *)
(* when decodes panic.                                                     *)
(***************************************************************************)
Silent(r) == heard[r] = <<>> /\ reply[r] = <<>>
Waiting(r) == caller[r] \in {"listening", "dropped"} /\ Silent(r) /\ r # inflight

\* No request is in a queue twice.
Distinct(s) == \A i, j \in DOMAIN s : s[i] = s[j] /\ s[i] # Cancel => i = j

QueueInv ==
  /\ \A r \in Requests : caller[r] = "unsent" => Silent(r) /\ r # inflight
  /\ \A q \in Range(chan) : q # Cancel => Waiting(q) /\ q \notin Range(deferred)
  /\ \A q \in Range(deferred) : Waiting(q)
  /\ Distinct(chan) /\ Distinct(deferred)

OneEnd(s) == \A i, j \in DOMAIN s : s[i].terminal /\ s[j].terminal => i = j

CustodyInv ==
  /\ \A q \in Range(stdin) : q # Cancel => q = inflight /\ lines = <<>> /\ decoding = None /\ NoEnd
  /\ Distinct(stdin)
  /\ lines # <<>> => lines = <<inflight>> /\ decoding = None /\ NoEnd
  /\ decoding # None => decoding = inflight /\ NoEnd
  /\ inflight = None => NoEnd
  /\ OneEnd(stdout) /\ OneEnd(events)
  /\ Endless(stdout) \/ Endless(events)

(***************************************************************************)
(* Cancels. One that can still reach a request, because it is behind it in *)
(* the manager's channel or on the worker's stdin, was posted while that   *)
(* request was waiting.                                                    *)
(***************************************************************************)
Reachable == cancelled \cup exposed

\* Every request ahead of a cancel in s is in R.
CancelsReach(s, R) ==
  \A j \in DOMAIN s : s[j] = Cancel => \A i \in 1..(j - 1) : s[i] # Cancel => s[i] \in R

CancelInv ==
  /\ cut \subseteq Reachable
  /\ flag /\ decoding # None => inflight \in Reachable
  /\ CancelsReach(stdin, Reachable)
  /\ Cancel \in Range(stdin) /\ (lines # <<>> \/ decoding # None) => inflight \in Reachable
  /\ CancelsReach(chan, Reachable)
  /\ Cancel \in Range(chan) =>
       Range(deferred) \subseteq Reachable /\ (inflight # None => inflight \in Reachable)

(***************************************************************************)
(* The stream of the request that owns the pipes, while no decode has      *)
(* panicked: the pipe continues what its caller was told, and ends with    *)
(* the terminal event.                                                     *)
(***************************************************************************)
Follows(s, n) == \A i \in DOMAIN s : s[i].n = IF s[i].terminal THEN n + i - 1 ELSE n + i

Stream(r) ==
  /\ \A i \in DOMAIN Pipe : Pipe[i].req = r /\ (Pipe[i].terminal => i = Len(Pipe))
  /\ caller[r] = "listening" =>
       /\ Endless(Said(r))
       /\ Follows(Pipe, Len(Said(r)))
       /\ decoding # None => decoded = Len(Said(r)) + Len(Pipe)

\* The worker has the request that owns the pipes and has not begun it.
Unbegun == lines # <<>> \/ \E q \in Range(stdin) : q # Cancel

StreamInv ==
  panics = 0 =>
    /\ \A r \in Requests : HearsItself(r)
    /\ inflight = None => Pipe = <<>>
    /\ inflight # None => Stream(inflight) /\ caller[inflight] \in {"listening", "dropped"}
    /\ inflight # None /\ Unbegun => Pipe = <<>> /\ Silent(inflight)

(***************************************************************************)
(* The write of a request's line. Nobody has heard of the request before   *)
(* it is done, so no cancel of its own caller can find it under way.       *)
(***************************************************************************)
WriteInv ==
  /\ write # "done" => inflight \in Requests /\ Silent(inflight)
  /\ write = "stuck" => inflight \in exposed
  /\ \A r \in cancelled : heard[r] # <<>>

PipesInv == StreamTypeOK /\ QueueInv /\ CustodyInv
GSInv == PipesInv /\ CancelInv /\ StreamInv /\ WriteInv

USE StreamAssumption

(***************************************************************************)
(* Sequences.                                                              *)
(***************************************************************************)
\* Appending an element, index by index.
LEMMA Appended ==
  ASSUME NEW S, NEW s \in Seq(S), NEW e \in S
  PROVE  LET a == Append(s, e)
             n == Len(s) + 1
         IN  /\ a \in Seq(S) /\ a # <<>> /\ Len(a) = n /\ n \in Nat
             /\ DOMAIN a = DOMAIN s \cup {n} /\ n \notin DOMAIN s
             /\ \A i \in DOMAIN s : a[i] = s[i] /\ i \in Nat /\ i < n /\ i >= 1
             /\ a[n] = e
             /\ Range(a) = Range(s) \cup {e}
<1> DEFINE a == Append(s, e)
           n == Len(s) + 1
<1>1. /\ a \in Seq(S) /\ a # <<>> /\ Len(a) = n
      /\ \A i \in 1..Len(s) : a[i] = s[i]
      /\ a[n] = e
  BY AppendProperties
<1>2. DOMAIN a = 1..n /\ DOMAIN s = 1..Len(s) /\ Len(s) \in Nat
  BY <1>1, LenProperties
<1>3. /\ DOMAIN a = DOMAIN s \cup {n} /\ n \notin DOMAIN s
      /\ \A i \in DOMAIN s : a[i] = s[i] /\ i \in Nat /\ i < n /\ i >= 1
  BY <1>1, <1>2
<1>4. Range(a) = Range(s) \cup {e}
  <2> HIDE DEF a, n
  <2> QED BY <1>1, <1>3 DEF Range
<1> QED BY <1>1, <1>2, <1>3, <1>4

\* Taking the head, index by index.
LEMMA Taken ==
  ASSUME NEW S, NEW s \in Seq(S), s # <<>>
  PROVE  /\ Head(s) \in S /\ Head(s) = s[1] /\ 1 \in DOMAIN s
         /\ Tail(s) \in Seq(S) /\ Len(Tail(s)) = Len(s) - 1 /\ Len(s) \in Nat
         /\ \A i \in DOMAIN Tail(s) : i \in Nat /\ i + 1 \in DOMAIN s /\ Tail(s)[i] = s[i + 1]
         /\ \A i \in DOMAIN s : i # 1 => i - 1 \in DOMAIN Tail(s)
         /\ \A i \in DOMAIN s : i \in Nat /\ i >= 1
         /\ Range(s) = {Head(s)} \cup Range(Tail(s))
<1>1. /\ Head(s) \in S /\ Tail(s) \in Seq(S) /\ Len(Tail(s)) = Len(s) - 1
      /\ \A i \in 1..Len(Tail(s)) : Tail(s)[i] = s[i + 1]
  BY HeadTailProperties
<1>2. /\ Len(s) \in Nat \ {0} /\ DOMAIN s = 1..Len(s) /\ DOMAIN Tail(s) = 1..(Len(s) - 1)
  BY <1>1, LenProperties, EmptySeq
<1>3. Head(s) = s[1]
  BY <1>2
<1>4. /\ 1 \in DOMAIN s
      /\ \A i \in DOMAIN Tail(s) : i \in Nat /\ i + 1 \in DOMAIN s /\ Tail(s)[i] = s[i + 1]
      /\ \A i \in DOMAIN s : i # 1 => i - 1 \in DOMAIN Tail(s)
      /\ \A i \in DOMAIN s : i \in Nat /\ i >= 1
  BY <1>1, <1>2
<1>5. \A i \in DOMAIN s : i # 1 => s[i] = Tail(s)[i - 1]
  BY <1>1, <1>2
<1>6. Range(s) = {Head(s)} \cup Range(Tail(s))
  <2>1. ASSUME NEW x \in Range(s) PROVE x = Head(s) \/ x \in Range(Tail(s))
    <3>1. PICK i \in DOMAIN s : s[i] = x
      BY <2>1 DEF Range
    <3> QED BY <1>3, <1>4, <1>5, <3>1 DEF Range
  <2>2. Head(s) \in Range(s) /\ Range(Tail(s)) \subseteq Range(s)
    BY <1>3, <1>4 DEF Range
  <2> QED BY <2>1, <2>2
<1> QED BY <1>1, <1>2, <1>3, <1>4, <1>6

\* Moving the head of one sequence to the end of the one before it.
LEMMA Moved ==
  ASSUME NEW S, NEW s \in Seq(S), NEW t \in Seq(S), t # <<>>
  PROVE  Append(s, Head(t)) \o Tail(t) = s \o t
<1> DEFINE a == Append(s, Head(t))
           l == Len(s) + Len(t)
<1>1. /\ Len(s) \in Nat /\ Len(t) \in Nat \ {0} /\ Head(t) \in S /\ Head(t) = t[1]
      /\ Tail(t) \in Seq(S) /\ Len(Tail(t)) = Len(t) - 1
      /\ \A i \in 1..(Len(t) - 1) : Tail(t)[i] = t[i + 1]
  BY HeadTailProperties, LenProperties, EmptySeq
<1>2. /\ a \in Seq(S) /\ Len(a) = Len(s) + 1
      /\ \A i \in 1..Len(s) : a[i] = s[i]
      /\ a[Len(s) + 1] = t[1]
  BY <1>1, AppendProperties
<1> HIDE DEF a
<1>3. /\ a \o Tail(t) \in Seq(S) /\ Len(a \o Tail(t)) = Len(s) + 1 + (Len(t) - 1)
      /\ \A i \in 1..(Len(s) + 1 + (Len(t) - 1)) :
           (a \o Tail(t))[i] = IF i <= Len(s) + 1 THEN a[i] ELSE Tail(t)[i - (Len(s) + 1)]
  <2> DEFINE u == Tail(t)
  <2>1. u \in Seq(S) /\ Len(u) = Len(t) - 1
    BY <1>1
  <2> HIDE DEF u
  <2>2. /\ a \o u \in Seq(S) /\ Len(a \o u) = Len(a) + Len(u)
        /\ \A i \in 1..(Len(a) + Len(u)) : (a \o u)[i] = IF i <= Len(a) THEN a[i] ELSE u[i - Len(a)]
    BY <1>2, <2>1, ConcatProperties
  <2> QED BY <1>2, <2>1, <2>2 DEF u
<1>4. /\ s \o t \in Seq(S) /\ Len(s \o t) = l
      /\ \A i \in 1..l : (s \o t)[i] = IF i <= Len(s) THEN s[i] ELSE t[i - Len(s)]
  BY ConcatProperties
<1>5. Len(s) + 1 + (Len(t) - 1) = l /\ l \in Nat
  BY <1>1
<1>6. ASSUME NEW i \in 1..l PROVE (a \o Tail(t))[i] = (s \o t)[i]
  <2>1. CASE i <= Len(s)
    BY <1>1, <1>2, <1>3, <1>4, <1>5, <2>1
  <2>2. CASE i = Len(s) + 1
    BY <1>1, <1>2, <1>3, <1>4, <1>5, <2>2
  <2>3. CASE i > Len(s) + 1
    <3>1. i - (Len(s) + 1) \in 1..(Len(t) - 1) /\ i - (Len(s) + 1) + 1 = i - Len(s)
      BY <1>1, <2>3
    <3>2. (a \o Tail(t))[i] = Tail(t)[i - (Len(s) + 1)] /\ (s \o t)[i] = t[i - Len(s)]
      BY <1>1, <1>3, <1>4, <1>5, <2>3
    <3> QED BY <1>1, <3>1, <3>2
  <2>4. i <= Len(s) \/ i = Len(s) + 1 \/ i > Len(s) + 1
    BY <1>1, <1>5
  <2> QED BY <2>1, <2>2, <2>3, <2>4
<1> HIDE DEF l
<1> QED BY <1>3, <1>4, <1>5, <1>6, SeqEqual DEF a


\* A sequence after another one whose head is taken, or that an element is added to.
LEMMA HeadOfConcat ==
  ASSUME NEW S, NEW s \in Seq(S), NEW t \in Seq(S), s # <<>>
  PROVE  s \o t # <<>> /\ Head(s \o t) = Head(s) /\ Tail(s \o t) = Tail(s) \o t
<1> DEFINE h == Head(s)
           u == Tail(s)
<1>1. h \in S /\ u \in Seq(S) /\ <<h>> \in Seq(S)
  BY HeadTailProperties
<1>2. u \o t \in Seq(S) /\ <<>> \in Seq(S)
  BY <1>1, ConcatProperties
<1>3. s = <<h>> \o u
  <2>1. Append(<<>>, h) \o u = <<>> \o s
    BY <1>2, Moved
  <2>2. Append(<<>>, h) = <<h>> /\ <<>> \o s = s
    BY <1>1, ConcatEmptySeq
  <2> QED BY <2>1, <2>2
<1>4. s \o t = <<h>> \o (u \o t)
  BY <1>1, <1>3, ConcatAssociative
<1> HIDE DEF h, u
<1>5. \A v \in Seq(S) : <<h>> \o v # <<>> /\ Head(<<h>> \o v) = h /\ Tail(<<h>> \o v) = v
  <2> SUFFICES ASSUME NEW v \in Seq(S) PROVE <<h>> \o v # <<>> /\ Head(<<h>> \o v) = h /\ Tail(<<h>> \o v) = v
    OBVIOUS
  <2> DEFINE w == <<h>> \o v
  <2>1. Len(<<h>>) = 1 /\ <<h>>[1] = h /\ Len(v) \in Nat
    BY LenProperties
  <2>2. /\ w \in Seq(S) /\ Len(w) = 1 + Len(v)
        /\ \A i \in 1..(1 + Len(v)) : w[i] = IF i <= 1 THEN h ELSE v[i - 1]
    BY <1>1, <2>1, ConcatProperties
  <2> HIDE DEF w
  <2>3. w # <<>> /\ w[1] = h
    BY <2>1, <2>2, EmptySeq
  <2>4. Head(w) = w[1] /\ Tail(w) \in Seq(S) /\ Len(Tail(w)) = Len(v)
        /\ \A i \in 1..Len(v) : Tail(w)[i] = w[i + 1]
    BY <2>1, <2>2, <2>3, HeadTailProperties, Taken
  <2>5. \A i \in 1..Len(v) : Tail(w)[i] = v[i]
    BY <2>1, <2>2, <2>4
  <2>6. Tail(w) = v
    BY <2>4, <2>5, SeqEqual
  <2> QED BY <2>3, <2>4, <2>6 DEF w
<1> QED BY <1>2, <1>4, <1>5 DEF h, u

LEMMA AppendToConcat ==
  ASSUME NEW S, NEW s \in Seq(S), NEW t \in Seq(S), NEW e \in S
  PROVE  s \o Append(t, e) = Append(s \o t, e)
<1>1. <<e>> \in Seq(S) /\ s \o t \in Seq(S)
  BY ConcatProperties
<1>2. Append(t, e) = t \o <<e>> /\ Append(s \o t, e) = (s \o t) \o <<e>>
  BY <1>1, AppendIsConcat
<1> QED BY <1>1, <1>2, ConcatAssociative

(***************************************************************************)
(* Streams.                                                                *)
(***************************************************************************)
OwnEvents(r, s) ==
  \A i \in DOMAIN s :
    /\ s[i].req = r
    /\ s[i].terminal => i = Len(s) /\ s[i].n = i - 1
    /\ ~s[i].terminal => s[i].n = i

LEMMA HearingIsOwn == ASSUME NEW r \in Requests PROVE HearsItself(r) <=> OwnEvents(r, Said(r))
BY DEF HearsItself, OwnEvents, Said

\* A stream goes on with its next token, or with the end.
LEMMA OwnGrows ==
  ASSUME NEW r \in Requests, NEW s \in Seq(StreamEvents), NEW e \in StreamEvents,
         OwnEvents(r, s), Endless(s),
         e.req = r, e.n = IF e.terminal THEN Len(s) ELSE Len(s) + 1
  PROVE  OwnEvents(r, Append(s, e)) /\ (~e.terminal => Endless(Append(s, e)))
<1> DEFINE a == Append(s, e)
           n == Len(s) + 1
<1>1. /\ Len(a) = n /\ Len(s) \in Nat /\ DOMAIN a = DOMAIN s \cup {n}
      /\ \A i \in DOMAIN s : a[i] = s[i]
      /\ a[n] = e
  BY Appended, LenProperties
<1>2. e.n = IF e.terminal THEN n - 1 ELSE n
  BY <1>1
<1> HIDE DEF a, n
<1>3. ASSUME NEW i \in DOMAIN a
      PROVE  /\ a[i].req = r
             /\ a[i].terminal => i = Len(a) /\ a[i].n = i - 1
             /\ ~a[i].terminal => a[i].n = i
  BY <1>1, <1>2, <1>3 DEF OwnEvents, Endless
<1>4. ~e.terminal => Endless(a)
  BY <1>1 DEF Endless
<1> QED BY <1>3, <1>4 DEF OwnEvents, a

\* What was heard of a stream is one itself.
LEMMA OwnPrefix ==
  ASSUME NEW r \in Requests, NEW s \in Seq(StreamEvents), NEW t \in Seq(StreamEvents),
         OwnEvents(r, s \o t)
  PROVE  OwnEvents(r, s)
<1>1. /\ Len(s) \in Nat /\ Len(t) \in Nat /\ DOMAIN s = 1..Len(s)
      /\ s \o t \in Seq(StreamEvents) /\ Len(s \o t) = Len(s) + Len(t)
      /\ \A i \in 1..Len(s) + Len(t) : (s \o t)[i] = IF i <= Len(s) THEN s[i] ELSE t[i - Len(s)]
  BY ConcatProperties, LenProperties
<1>2. DOMAIN (s \o t) = 1..Len(s) + Len(t)
  BY <1>1, LenProperties
<1>3. ASSUME NEW i \in DOMAIN s PROVE i \in DOMAIN (s \o t) /\ (s \o t)[i] = s[i]
  BY <1>1, <1>2
<1>4. ASSUME NEW i \in DOMAIN s, i = Len(s) + Len(t) PROVE i = Len(s)
  <2>1. Len(s) \in Nat /\ Len(t) \in Nat /\ i \in 1..Len(s)
    BY <1>1
  <2> QED BY ONLY <1>4, <2>1
<1>5. ASSUME NEW i \in DOMAIN s
      PROVE  /\ s[i].req = r
             /\ s[i].terminal => i = Len(s) /\ s[i].n = i - 1
             /\ ~s[i].terminal => s[i].n = i
  BY <1>1, <1>3, <1>4 DEF OwnEvents
<1> QED BY <1>5 DEF OwnEvents

\* Pipe and Said, element by element.
LEMMA PipeTyped ==
  ASSUME StreamTypeOK
  PROVE  /\ Pipe \in Seq(StreamEvents)
         /\ Pipe = <<>> <=> stdout = <<>> /\ events = <<>>
         /\ \A r \in Requests : /\ Said(r) \in Seq(StreamEvents) /\ Len(Said(r)) \in Nat
                                /\ Said(r) = <<>> <=> Silent(r)
<1>1. stdout \in Seq(StreamEvents) /\ events \in Seq(StreamEvents)
  BY DEF StreamTypeOK
<1>2. ASSUME NEW r \in Requests PROVE heard[r] \in Seq(StreamEvents) /\ reply[r] \in Seq(StreamEvents)
  BY DEF StreamTypeOK
<1>3. Pipe \in Seq(StreamEvents) /\ (Pipe = <<>> <=> stdout = <<>> /\ events = <<>>)
  BY <1>1, ConcatProperties, ConcatEqualIffEmpty DEF Pipe
<1>4. ASSUME NEW r \in Requests
      PROVE  /\ Said(r) \in Seq(StreamEvents) /\ Len(Said(r)) \in Nat
             /\ Said(r) = <<>> <=> Silent(r)
  <2>1. Said(r) \in Seq(StreamEvents)
    BY <1>2, ConcatProperties DEF Said
  <2>2. Said(r) = <<>> <=> Silent(r)
    <3> DEFINE x == heard[r]
               y == reply[r]
    <3>1. x \in Seq(StreamEvents) /\ y \in Seq(StreamEvents)
      BY <1>2
    <3> HIDE DEF x, y
    <3>2. x \o y = <<>> <=> x = <<>> /\ y = <<>>
      BY <3>1, ConcatEqualIffEmpty
    <3> QED BY <3>2 DEF x, y, Said, Silent
  <2> QED BY <2>1, <2>2, LenProperties
<1> QED BY <1>3, <1>4

LEMMA PipeEndless == StreamTypeOK => (NoEnd <=> Endless(Pipe))
<1> SUFFICES ASSUME StreamTypeOK PROVE NoEnd <=> Endless(Pipe)
  OBVIOUS
<1>1. stdout \in Seq(StreamEvents) /\ events \in Seq(StreamEvents) /\ Pipe \in Seq(StreamEvents)
  BY PipeTyped DEF StreamTypeOK
<1>2. Range(Pipe) = Range(stdout) \cup Range(events)
  BY <1>1, RangeConcatenation DEF Pipe
<1>3. \A s : Endless(s) <=> \A e \in Range(s) : ~e.terminal
  BY DEF Endless, Range
<1> QED BY <1>2, <1>3 DEF NoEnd


(***************************************************************************)
(* Types.                                                                  *)
(***************************************************************************)
LEMMA EventTypes ==
  ASSUME NEW r \in Requests, NEW n \in Nat
  PROVE  /\ Token(r, n) \in StreamEvents /\ Completion(r, n) \in StreamEvents
         /\ Token(r, n).req = r /\ ~Token(r, n).terminal /\ Token(r, n).n = n
         /\ Completion(r, n).req = r /\ Completion(r, n).terminal /\ Completion(r, n).n = n
BY DEF Token, Completion, StreamEvents

LEMMA TypeInitially == Init => StreamTypeOK
<1>1. <<>> \in Seq(StreamEvents) /\ <<>> \in Seq(Commands) /\ <<>> \in Seq(Requests)
  BY EmptySeq
<1>2. FALSE \in BOOLEAN /\ 0 \in Nat
  OBVIOUS
<1> QED BY <1>1, <1>2 DEF Init, StreamTypeOK

LEMMA TypeOfCallers ==
  ASSUME StreamTypeOK, NEW r \in Requests, Submit(r) \/ Listen(r) \/ Drop(r)
  PROVE  StreamTypeOK'
<1>1. CASE Submit(r)
  <2>1. r \in Commands /\ chan' \in Seq(Commands)
    BY <1>1, AppendProperties DEF Submit, StreamTypeOK, Commands
  <2> QED BY <1>1, <2>1 DEF Submit, StreamTypeOK, workerVars
<1>2. CASE Listen(r)
  <2>1. /\ reply[r] \in Seq(StreamEvents) /\ reply[r] # <<>>
        /\ reply' = [reply EXCEPT ![r] = Tail(reply[r])]
        /\ heard' = [heard EXCEPT ![r] = Append(heard[r], Head(reply[r]))]
    BY <1>2 DEF Listen, StreamTypeOK
  <2>2. Tail(reply[r]) \in Seq(StreamEvents) /\ Append(heard[r], Head(reply[r])) \in Seq(StreamEvents)
    BY <2>1, Taken, AppendProperties DEF StreamTypeOK
  <2>3. heard' \in [Requests -> Seq(StreamEvents)] /\ reply' \in [Requests -> Seq(StreamEvents)]
    BY <2>1, <2>2 DEF StreamTypeOK
  <2>4. Cancel \in Commands /\ Append(chan, Cancel) \in Seq(Commands)
    BY AppendProperties DEF StreamTypeOK, Commands
  <2>5. /\ caller' \in [Requests -> {"unsent", "listening", "dropped", "ended"}]
        /\ cancelled' \subseteq Requests /\ exposed' \subseteq Requests /\ chan' \in Seq(Commands)
    BY <1>2, <2>4 DEF Listen, StreamTypeOK, Outstanding
  <2>6. UNCHANGED <<deferred, inflight, write, workerVars>>
    BY <1>2 DEF Listen
  <2> QED BY <2>3, <2>5, <2>6 DEF StreamTypeOK, workerVars
<1>3. CASE Drop(r)
  <2>1. reply' \in [Requests -> Seq(StreamEvents)]
    BY <1>3, EmptySeq DEF Drop, StreamTypeOK
  <2> QED BY <1>3, <2>1 DEF Drop, StreamTypeOK, loopVars, workerVars
<1> QED BY <1>1, <1>2, <1>3

LEMMA TypeOfLoop == ASSUME StreamTypeOK, Loop PROVE StreamTypeOK'
<1>1. Cancel \in Commands /\ \A x \in Requests : x \in Commands
  BY DEF Commands
<1>2. \A x \in Commands : Append(stdin, x) \in Seq(Commands)
  BY AppendProperties DEF StreamTypeOK
<1>3. chan # <<>> => Head(chan) \in Commands /\ Tail(chan) \in Seq(Commands)
  BY Taken DEF StreamTypeOK
<1>4. deferred # <<>> => Head(deferred) \in Requests /\ Tail(deferred) \in Seq(Requests)
  BY Taken DEF StreamTypeOK
<1>5. \A x \in Requests : Append(deferred, x) \in Seq(Requests)
  BY AppendProperties DEF StreamTypeOK
<1>6. CASE NextCommand
  <2>1. /\ chan' \in Seq(Commands) /\ deferred' \in Seq(Requests) /\ inflight' \in Requests \cup {None}
        /\ stdin' \in Seq(Commands) /\ write' \in {"done", "begun", "stuck"}
        /\ UNCHANGED <<callerVars, lines, flag, decoding, decoded, events, stdout, panics, cut>>
    <3>1. CASE deferred # <<>>
      BY <1>1, <1>2, <1>4, <1>6, <3>1 DEF NextCommand, BeginWrite, StreamTypeOK
    <3>2. CASE deferred = <<>> /\ chan # <<>> /\ Head(chan) # Cancel
      BY <1>2, <1>3, <1>6, <3>2 DEF NextCommand, BeginWrite, StreamTypeOK, Commands
    <3>3. CASE deferred = <<>> /\ chan # <<>> /\ Head(chan) = Cancel
      BY <1>1, <1>2, <1>3, <1>6, <3>3 DEF NextCommand, BeginWrite, StreamTypeOK, DeliverCancel
    <3> QED BY <1>6, <3>1, <3>2, <3>3 DEF NextCommand
  <2> QED BY <2>1 DEF StreamTypeOK, callerVars
<1>7. CASE CommandInFlight
  <2>1. /\ chan' \in Seq(Commands) /\ deferred' \in Seq(Requests) /\ stdin' \in Seq(Commands)
        /\ write' \in {"done", "begun", "stuck"}
        /\ UNCHANGED <<callerVars, inflight, lines, flag, decoding, decoded, events, stdout, panics, cut>>
    <3>1. CASE Head(chan) = Cancel
      BY <1>1, <1>2, <1>3, <1>7, <3>1 DEF CommandInFlight, StreamTypeOK, DeliverCancel, workerVars
    <3>2. CASE Head(chan) # Cancel
      <4>1. Head(chan) \in Requests /\ UNCHANGED workerVars /\ deferred' = Append(deferred, Head(chan))
        BY <1>3, <1>7, <3>2 DEF CommandInFlight, Commands
      <4> QED BY <1>3, <1>5, <1>7, <4>1 DEF CommandInFlight, StreamTypeOK, workerVars
    <3> QED BY <3>1, <3>2
  <2> QED BY <2>1 DEF StreamTypeOK, callerVars
<1>8. CASE ForwardEvent
  <2>1. Head(stdout) \in StreamEvents /\ stdout' \in Seq(StreamEvents) /\ inflight \in Requests
    BY <1>8, Taken DEF ForwardEvent, StreamTypeOK
  <2>2. Append(reply[inflight], Head(stdout)) \in Seq(StreamEvents)
    BY <2>1, AppendProperties DEF StreamTypeOK
  <2>3. reply' \in [Requests -> Seq(StreamEvents)] /\ inflight' \in Requests \cup {None}
    BY <1>8, <2>2 DEF ForwardEvent, StreamTypeOK
  <2> QED BY <1>8, <2>1, <2>3 DEF ForwardEvent, StreamTypeOK
<1>9. CASE FinishWrite
  BY <1>9 DEF FinishWrite, StreamTypeOK, callerVars, workerVars
<1> QED BY <1>6, <1>7, <1>8, <1>9 DEF Loop

LEMMA TypeOfWorker == ASSUME StreamTypeOK, Worker PROVE StreamTypeOK'
<1> USE DEF callerVars, loopVars
<1>1. CASE ReadLine
  <2>1. Head(stdin) \in Commands /\ stdin' \in Seq(Commands)
    BY <1>1, Taken DEF ReadLine, StreamTypeOK
  <2>2. lines' \in Seq(Requests)
    <3>1. lines \in Seq(Requests) /\ \A x \in Requests : Append(lines, x) \in Seq(Requests)
      BY AppendProperties DEF StreamTypeOK
    <3>2. lines' = lines \/ (Head(stdin) # Cancel /\ lines' = Append(lines, Head(stdin)))
      BY <1>1 DEF ReadLine
    <3> QED BY <2>1, <3>1, <3>2 DEF Commands
  <2>3. flag' = TRUE \/ flag' = flag
    BY <1>1 DEF ReadLine
  <2> QED BY <1>1, <2>1, <2>2, <2>3 DEF ReadLine, StreamTypeOK
<1>2. CASE Dispatch
  BY <1>2, Taken DEF Dispatch, StreamTypeOK
<1>3. CASE Decode
  <2>1. decoding \in Requests /\ decoded' \in Nat
    BY <1>3 DEF Decode, StreamTypeOK
  <2>2. events' \in Seq(StreamEvents)
    BY <1>3, <2>1, EventTypes, AppendProperties DEF Decode, StreamTypeOK
  <2> QED BY <1>3, <2>1, <2>2 DEF Decode, StreamTypeOK
<1>4. CASE Complete
  <2>1. decoding \in Requests /\ cut' \subseteq Requests
    BY <1>4 DEF Complete, StreamTypeOK
  <2>2. events' \in Seq(StreamEvents)
    BY <1>4, <2>1, EventTypes, AppendProperties DEF Complete, StreamTypeOK
  <2> QED BY <1>4, <2>1, <2>2 DEF Complete, StreamTypeOK
<1>5. CASE DecodePanics
  <2>1. decoding \in Requests /\ panics' \in Nat
    BY <1>5 DEF DecodePanics, StreamTypeOK
  <2>2. stdout' \in Seq(StreamEvents)
    BY <1>5, <2>1, EventTypes, AppendProperties DEF DecodePanics, StreamTypeOK
  <2> QED BY <1>5, <2>1, <2>2 DEF DecodePanics, StreamTypeOK
<1>6. CASE WriteEvent
  <2>1. Head(events) \in StreamEvents /\ events' \in Seq(StreamEvents)
    BY <1>6, Taken DEF WriteEvent, StreamTypeOK
  <2>2. stdout' \in Seq(StreamEvents)
    BY <1>6, <2>1, AppendProperties DEF WriteEvent, StreamTypeOK
  <2> QED BY <1>6, <2>1, <2>2 DEF WriteEvent, StreamTypeOK
<1> QED BY <1>1, <1>2, <1>3, <1>4, <1>5, <1>6 DEF Worker

LEMMA TypeKept == StreamTypeOK /\ [Next]_vars => StreamTypeOK'
<1>1. StreamTypeOK /\ UNCHANGED vars => StreamTypeOK'
  BY DEF vars, StreamTypeOK
<1> QED BY <1>1, TypeOfCallers, TypeOfLoop, TypeOfWorker DEF Next


(***************************************************************************)
(* Custody.                                                                *)
(***************************************************************************)
LEMMA DistinctSteps ==
  ASSUME NEW S, NEW s \in Seq(S), Distinct(s)
  PROVE  /\ \A e \in S : e = Cancel \/ e \notin Range(s) => Distinct(Append(s, e))
         /\ s # <<>> => Distinct(Tail(s)) /\ (Head(s) = Cancel \/ Head(s) \notin Range(Tail(s)))
<1>1. ASSUME NEW e \in S, e = Cancel \/ e \notin Range(s) PROVE Distinct(Append(s, e))
  <2> DEFINE a == Append(s, e)
             n == Len(s) + 1
  <2>1. /\ DOMAIN a = DOMAIN s \cup {n} /\ a[n] = e
        /\ \A i \in DOMAIN s : a[i] = s[i]
    BY Appended
  <2> HIDE DEF a, n
  <2>2. \A i \in DOMAIN s : s[i] = e => e = Cancel
    BY <1>1 DEF Range
  <2> QED BY <2>1, <2>2 DEF Distinct, a
<1>2. ASSUME s # <<>> PROVE Distinct(Tail(s)) /\ (Head(s) = Cancel \/ Head(s) \notin Range(Tail(s)))
  <2> DEFINE u == Tail(s)
  <2>1. /\ Head(s) = s[1] /\ 1 \in DOMAIN s
        /\ \A i \in DOMAIN u : i \in Nat /\ i + 1 \in DOMAIN s /\ u[i] = s[i + 1] /\ i + 1 # 1
    <3>1. /\ Head(s) = s[1] /\ 1 \in DOMAIN s /\ Len(s) \in Nat /\ Len(u) = Len(s) - 1 /\ u \in Seq(S)
          /\ \A i \in DOMAIN u : i \in Nat /\ i + 1 \in DOMAIN s /\ u[i] = s[i + 1]
      BY <1>2, Taken
    <3>2. \A i \in DOMAIN u : i # 0
      BY <3>1, LenProperties
    <3> QED BY <3>1, <3>2
  <2> HIDE DEF u
  <2>2. Distinct(u)
    BY <2>1 DEF Distinct
  <2>3. Head(s) = Cancel \/ Head(s) \notin Range(u)
    BY <2>1 DEF Distinct, Range
  <2> QED BY <2>2, <2>3 DEF u
<1> QED BY <1>1, <1>2

LEMMA EndSteps ==
  ASSUME NEW s \in Seq(StreamEvents)
  PROVE  /\ \A e \in StreamEvents :
              /\ Endless(Append(s, e)) <=> Endless(s) /\ ~e.terminal
              /\ OneEnd(s) /\ (Endless(s) \/ ~e.terminal) => OneEnd(Append(s, e))
         /\ s # <<>> =>
              /\ Endless(s) <=> Endless(Tail(s)) /\ ~Head(s).terminal
              /\ OneEnd(s) => OneEnd(Tail(s)) /\ (Head(s).terminal => Endless(Tail(s)))
<1>1. ASSUME NEW e \in StreamEvents
      PROVE  /\ Endless(Append(s, e)) <=> Endless(s) /\ ~e.terminal
             /\ OneEnd(s) /\ (Endless(s) \/ ~e.terminal) => OneEnd(Append(s, e))
  <2> DEFINE a == Append(s, e)
             n == Len(s) + 1
  <2>1. /\ DOMAIN a = DOMAIN s \cup {n} /\ a[n] = e
        /\ \A i \in DOMAIN s : a[i] = s[i]
    BY Appended
  <2> HIDE DEF a, n
  <2>2. Endless(a) <=> Endless(s) /\ ~e.terminal
    BY <2>1 DEF Endless
  <2>3. OneEnd(s) /\ (Endless(s) \/ ~e.terminal) => OneEnd(a)
    BY <2>1 DEF Endless, OneEnd
  <2> QED BY <2>2, <2>3 DEF a
<1>2. ASSUME s # <<>>
      PROVE  /\ Endless(s) <=> Endless(Tail(s)) /\ ~Head(s).terminal
             /\ OneEnd(s) => OneEnd(Tail(s)) /\ (Head(s).terminal => Endless(Tail(s)))
  <2> DEFINE u == Tail(s)
  <2>1. /\ Head(s) = s[1] /\ 1 \in DOMAIN s /\ u \in Seq(StreamEvents) /\ Len(s) \in Nat
        /\ Len(u) = Len(s) - 1
        /\ \A i \in DOMAIN u : i \in Nat /\ i + 1 \in DOMAIN s /\ u[i] = s[i + 1]
        /\ \A i \in DOMAIN s : i \in Nat /\ (i # 1 => i - 1 \in DOMAIN u)
    BY <1>2, Taken
  <2>2. \A i \in DOMAIN u : i + 1 # 1
    BY <2>1, LenProperties
  <2>3. \A i \in DOMAIN s : i = 1 \/ (i - 1 \in DOMAIN u /\ u[i - 1] = s[i])
    BY <2>1
  <2> HIDE DEF u
  <2>4. Endless(s) <=> Endless(u) /\ ~Head(s).terminal
    <3>1. Endless(s) => Endless(u) /\ ~Head(s).terminal
      BY <2>1 DEF Endless
    <3>2. ASSUME Endless(u), ~Head(s).terminal, NEW i \in DOMAIN s PROVE ~s[i].terminal
      <4>1. CASE i = 1
        BY <2>1, <3>2, <4>1
      <4>2. CASE i # 1
        BY <2>3, <3>2, <4>2 DEF Endless
      <4> QED BY <4>1, <4>2
    <3> QED BY <3>1, <3>2 DEF Endless
  <2>5. OneEnd(s) => OneEnd(u) /\ (Head(s).terminal => Endless(u))
    <3>1. ASSUME OneEnd(s), NEW i \in DOMAIN u, NEW j \in DOMAIN u, u[i].terminal, u[j].terminal PROVE i = j
      <4>1. i + 1 = j + 1
        BY <2>1, <3>1 DEF OneEnd
      <4> QED BY <2>1, <4>1
    <3>2. ASSUME OneEnd(s), Head(s).terminal, NEW i \in DOMAIN u, u[i].terminal PROVE FALSE
      BY <2>1, <2>2, <3>2 DEF OneEnd
    <3> QED BY <3>1, <3>2 DEF OneEnd, Endless
  <2> QED BY <2>4, <2>5 DEF u
<1> QED BY <1>1, <1>2

\* Between requests the worker has none and no end is on its way.
LEMMA Boundary ==
  ASSUME StreamTypeOK, CustodyInv, inflight = None
  PROVE  lines = <<>> /\ decoding = None /\ NoEnd /\ \A q \in Range(stdin) : q = Cancel
<1>1. \A q \in Range(stdin) : q \in Requests \cup {Cancel}
  BY RangeOfSeq DEF StreamTypeOK, Commands
<1>2. \A q \in Range(stdin) : q = Cancel
  BY <1>1 DEF CustodyInv
<1>3. lines = <<>>
  <2> SUFFICES ASSUME lines # <<>> PROVE FALSE
    OBVIOUS
  <2>1. Head(lines) \in Requests
    BY Taken DEF StreamTypeOK
  <2>2. Head(lines) = None
    BY DEF CustodyInv
  <2> QED BY <2>1, <2>2
<1> QED BY <1>2, <1>3 DEF CustodyInv

LEMMA QueueOfCallers ==
  ASSUME PipesInv, NEW r \in Requests, Submit(r) \/ Listen(r) \/ Drop(r)
  PROVE  QueueInv'
<1> USE DEF PipesInv
<1>1. caller \in [Requests -> {"unsent", "listening", "dropped", "ended"}] /\ chan \in Seq(Commands)
  BY DEF StreamTypeOK
<1>2. Range(chan) \subseteq Commands /\ Range(deferred) \subseteq Requests
  BY RangeOfSeq DEF StreamTypeOK
<1>3. CASE Submit(r)
  <2>1. /\ caller[r] = "unsent" /\ caller' = [caller EXCEPT ![r] = "listening"]
        /\ chan' = Append(chan, r)
        /\ UNCHANGED <<heard, reply, deferred, inflight>>
    BY <1>3 DEF Submit
  <2>2. r \notin Range(chan) /\ r \notin Range(deferred) /\ Silent(r) /\ r # inflight
    BY <2>1 DEF QueueInv, Waiting
  <2>3. Range(chan') = Range(chan) \cup {r} /\ Distinct(chan')
    BY <1>1, <2>1, <2>2, Appended, DistinctSteps DEF Commands, QueueInv
  <2>4. \A q : Silent(q)' <=> Silent(q)
    BY <2>1 DEF Silent
  <2>5. \A q \in Requests : Waiting(q) \/ q = r => Waiting(q)'
    BY <1>1, <2>1, <2>2, <2>4 DEF Waiting
  <2>6. \A q \in Requests : caller'[q] = "unsent" => Silent(q)' /\ q # inflight'
    BY <1>1, <2>1, <2>4 DEF QueueInv
  <2> QED BY <1>2, <2>1, <2>2, <2>3, <2>5, <2>6 DEF QueueInv, Commands
<1>4. CASE Listen(r)
  <2>1. /\ caller[r] = "listening" /\ reply[r] # <<>>
        /\ \A q \in Requests \ {r} : caller'[q] = caller[q] /\ heard'[q] = heard[q] /\ reply'[q] = reply[q]
        /\ caller'[r] # "unsent" /\ UNCHANGED <<deferred, inflight>>
        /\ chan' = chan \/ chan' = Append(chan, Cancel)
    BY <1>1, <1>4 DEF Listen, StreamTypeOK
  <2>2. ~Waiting(r)
    BY <2>1 DEF Waiting, Silent
  <2>3. \A q \in Requests : Waiting(q) => Waiting(q)'
    BY <2>1, <2>2 DEF Waiting, Silent
  <2>4. Distinct(chan') /\ Range(chan') \subseteq Range(chan) \cup {Cancel}
    <3>1. Cancel \in Commands /\ Distinct(chan)
      BY DEF Commands, QueueInv
    <3>2. Distinct(Append(chan, Cancel)) /\ Range(Append(chan, Cancel)) = Range(chan) \cup {Cancel}
      BY <1>1, <3>1, Appended, DistinctSteps
    <3> QED BY <2>1, <3>1, <3>2
  <2>5. \A q \in Requests : caller'[q] = "unsent" => Silent(q)' /\ q # inflight'
    BY <2>1 DEF QueueInv, Silent
  <2> QED BY <1>2, <2>1, <2>3, <2>4, <2>5 DEF QueueInv, Commands
<1>5. CASE Drop(r)
  <2>1. /\ caller[r] = "listening" /\ caller' = [caller EXCEPT ![r] = "dropped"]
        /\ reply' = [reply EXCEPT ![r] = <<>>]
        /\ UNCHANGED <<heard, chan, deferred, inflight>>
    BY <1>5 DEF Drop, loopVars
  <2>2. \A q \in Requests : Silent(q) => Silent(q)'
    BY <2>1 DEF Silent, StreamTypeOK
  <2>3. \A q \in Requests : Waiting(q) => Waiting(q)'
    BY <1>1, <2>1, <2>2 DEF Waiting
  <2>4. \A q \in Requests : caller'[q] = "unsent" => Silent(q)' /\ q # inflight'
    BY <1>1, <2>1, <2>2 DEF QueueInv
  <2> QED BY <1>2, <2>1, <2>3, <2>4 DEF QueueInv, Commands
<1> QED BY <1>3, <1>4, <1>5

LEMMA QueueOfLoop == ASSUME PipesInv, Loop PROVE QueueInv'
<1> USE DEF PipesInv
<1>1. /\ chan \in Seq(Commands) /\ deferred \in Seq(Requests)
      /\ Range(chan) \subseteq Commands /\ Range(deferred) \subseteq Requests
  BY RangeOfSeq DEF StreamTypeOK
<1>2. chan # <<>> =>
        /\ Head(chan) \in Range(chan) /\ Range(Tail(chan)) \subseteq Range(chan)
        /\ Distinct(Tail(chan)) /\ (Head(chan) = Cancel \/ Head(chan) \notin Range(Tail(chan)))
  BY <1>1, Taken, DistinctSteps DEF QueueInv
<1>3. deferred # <<>> =>
        /\ Head(deferred) \in Range(deferred) /\ Range(Tail(deferred)) \subseteq Range(deferred)
        /\ Distinct(Tail(deferred)) /\ Head(deferred) \notin Range(Tail(deferred))
  <2>1. Cancel \notin Range(deferred)
    BY <1>1
  <2> QED BY <1>1, <2>1, Taken, DistinctSteps DEF QueueInv
<1>4. CASE NextCommand
  <2>1. UNCHANGED <<caller, heard, reply>> /\ \A q : Silent(q)' <=> Silent(q)
    BY <1>4 DEF NextCommand, BeginWrite, callerVars, Silent
  <2>2. CASE deferred # <<>> /\ inflight' = Head(deferred) /\ deferred' = Tail(deferred) /\ chan' = chan
    <3>1. Waiting(Head(deferred)) /\ Head(deferred) \notin Range(chan)
      BY <1>1, <1>3, <2>2 DEF QueueInv
    <3>2. \A q : Waiting(q) /\ q # Head(deferred) => Waiting(q)'
      BY <2>1, <2>2 DEF Waiting
    <3>3. \A q \in Requests : caller'[q] = "unsent" => Silent(q)' /\ q # inflight'
      BY <2>1, <2>2, <3>1 DEF QueueInv, Waiting
    <3> QED BY <1>3, <2>2, <3>1, <3>2, <3>3 DEF QueueInv
  <2>3. CASE deferred' = deferred /\ deferred = <<>> /\ chan # <<>> /\ Head(chan) # Cancel
             /\ inflight' = Head(chan) /\ chan' = Tail(chan)
    <3>1. Waiting(Head(chan)) /\ Range(deferred) = {}
      BY <1>2, <2>3 DEF QueueInv, Range
    <3>2. \A q : Waiting(q) /\ q # Head(chan) => Waiting(q)'
      BY <2>1, <2>3 DEF Waiting
    <3>3. \A q \in Requests : caller'[q] = "unsent" => Silent(q)' /\ q # inflight'
      BY <2>1, <2>3, <3>1 DEF QueueInv, Waiting
    <3> QED BY <1>2, <2>3, <3>1, <3>2, <3>3 DEF QueueInv
  <2>4. CASE chan # <<>> /\ chan' = Tail(chan) /\ UNCHANGED <<deferred, inflight>>
    <3>1. \A q : Waiting(q)' <=> Waiting(q)
      BY <2>1, <2>4 DEF Waiting
    <3> QED BY <1>2, <2>1, <2>4, <3>1 DEF QueueInv
  <2> QED BY <1>4, <2>2, <2>3, <2>4 DEF NextCommand
<1>5. CASE CommandInFlight
  <2>1. chan # <<>> /\ chan' = Tail(chan) /\ UNCHANGED <<caller, heard, reply, inflight>>
    BY <1>5 DEF CommandInFlight, callerVars
  <2>2. \A q : (Waiting(q)' <=> Waiting(q)) /\ (Silent(q)' <=> Silent(q))
    BY <2>1 DEF Waiting, Silent
  <2>3. CASE Head(chan) = Cancel /\ UNCHANGED deferred
    BY <1>2, <2>1, <2>2, <2>3 DEF QueueInv
  <2>4. CASE Head(chan) # Cancel /\ deferred' = Append(deferred, Head(chan))
    <3>1. Waiting(Head(chan)) /\ Head(chan) \notin Range(deferred) /\ Head(chan) \in Requests
      BY <1>1, <1>2, <2>1, <2>4 DEF QueueInv, Commands
    <3>2. Distinct(deferred') /\ Range(deferred') = Range(deferred) \cup {Head(chan)}
      BY <1>1, <2>4, <3>1, Appended, DistinctSteps DEF QueueInv
    <3> QED BY <1>2, <2>1, <2>2, <2>4, <3>1, <3>2 DEF QueueInv
  <2> QED BY <1>5, <2>3, <2>4 DEF CommandInFlight
<1>6. CASE ForwardEvent
  <2>1. /\ inflight' = inflight \/ inflight' = None
        /\ \A q \in Requests : q # inflight => reply'[q] = reply[q]
        /\ UNCHANGED <<caller, heard, chan, deferred>>
    BY <1>6 DEF ForwardEvent, StreamTypeOK
  <2>2. \A q \in Requests : q # inflight /\ Silent(q) => Silent(q)' /\ q # inflight'
    BY <2>1 DEF Silent
  <2>3. \A q \in Requests : Waiting(q) => Waiting(q)'
    BY <2>1, <2>2 DEF Waiting
  <2> QED BY <1>1, <2>1, <2>2, <2>3 DEF QueueInv, Commands
<1>7. CASE FinishWrite
  BY <1>7 DEF FinishWrite, callerVars, QueueInv, Waiting, Silent
<1> QED BY <1>4, <1>5, <1>6, <1>7 DEF Loop

LEMMA QueueOfWorker == ASSUME PipesInv, Worker PROVE QueueInv'
<1>1. UNCHANGED <<callerVars, loopVars>>
  BY DEF Worker, ReadLine, Dispatch, Decode, Complete, DecodePanics, WriteEvent
<1> QED BY <1>1 DEF PipesInv, QueueInv, Waiting, Silent, callerVars, loopVars


LEMMA CustodyOfCallers ==
  ASSUME PipesInv, NEW r \in Requests, Submit(r) \/ Listen(r) \/ Drop(r)
  PROVE  CustodyInv'
<1>1. UNCHANGED <<workerVars, inflight>>
  BY DEF Submit, Listen, Drop, loopVars
<1> QED BY <1>1 DEF PipesInv, CustodyInv, NoEnd, workerVars

LEMMA CustodyOfLoop == ASSUME PipesInv, Loop PROVE CustodyInv'
<1> USE DEF PipesInv
<1>1. /\ stdin \in Seq(Commands) /\ stdout \in Seq(StreamEvents)
      /\ \A q \in Commands : Range(Append(stdin, q)) = Range(stdin) \cup {q}
      /\ Cancel \in Commands /\ Requests \subseteq Commands
  <2>1. stdin \in Seq(Commands) /\ stdout \in Seq(StreamEvents)
    BY DEF StreamTypeOK
  <2>2. Cancel \in Commands /\ Requests \subseteq Commands
    BY DEF Commands
  <2> QED BY <2>1, <2>2, Appended
\* A cancel that is delivered, or nothing.
<1>2. ASSUME stdin' \in {stdin, Append(stdin, Cancel)},
             UNCHANGED <<inflight, lines, decoding, events, stdout>>
      PROVE  CustodyInv'
  <2>1. NoEnd' <=> NoEnd
    BY <1>2 DEF NoEnd
  <2>2. Distinct(stdin') /\ Range(stdin') \subseteq Range(stdin) \cup {Cancel}
    <3>1. Distinct(stdin) /\ Distinct(Append(stdin, Cancel))
      BY <1>1, DistinctSteps DEF CustodyInv
    <3>2. Range(Append(stdin, Cancel)) = Range(stdin) \cup {Cancel}
      BY <1>1
    <3> QED BY <1>2, <3>1, <3>2
  <2> QED BY <1>2, <2>1, <2>2 DEF CustodyInv
\* A request that is written finds the pipes at a boundary.
<1>3. ASSUME NEW q \in Requests, inflight = None, inflight' = q, stdin' = Append(stdin, q),
             UNCHANGED <<lines, decoding, events, stdout>>
      PROVE  CustodyInv'
  <2>1. lines = <<>> /\ decoding = None /\ NoEnd /\ \A x \in Range(stdin) : x = Cancel
    BY <1>3, Boundary
  <2>2. NoEnd'
    BY <1>3, <2>1 DEF NoEnd
  <2>3. Distinct(stdin') /\ Range(stdin') = Range(stdin) \cup {q}
    BY <1>1, <1>3, <2>1, DistinctSteps DEF CustodyInv
  <2> QED BY <1>3, <2>1, <2>2, <2>3 DEF CustodyInv
<1>4. CASE NextCommand
  <2>1. CASE deferred # <<>>
    BY <1>3, <1>4, <2>1, Taken DEF NextCommand, BeginWrite, StreamTypeOK
  <2>2. CASE deferred = <<>> /\ chan # <<>> /\ Head(chan) # Cancel
    <3>1. Head(chan) \in Requests
      BY <2>2, Taken DEF StreamTypeOK, Commands
    <3> QED BY <1>3, <1>4, <2>2, <3>1 DEF NextCommand, BeginWrite
  <2>3. CASE deferred = <<>> /\ chan # <<>> /\ Head(chan) = Cancel
    BY <1>2, <1>4, <2>3 DEF NextCommand, BeginWrite, DeliverCancel
  <2> QED BY <1>4, <2>1, <2>2, <2>3 DEF NextCommand
<1>5. CASE CommandInFlight
  BY <1>2, <1>5 DEF CommandInFlight, DeliverCancel, workerVars
<1>6. CASE ForwardEvent
  <2>1. /\ inflight # None /\ stdout # <<>> /\ stdout' = Tail(stdout)
        /\ inflight' = IF Head(stdout).terminal THEN None ELSE inflight
        /\ UNCHANGED <<stdin, lines, decoding, events>>
    BY <1>6 DEF ForwardEvent
  <2>2. /\ Endless(stdout) <=> Endless(stdout') /\ ~Head(stdout).terminal
        /\ OneEnd(stdout') /\ (Head(stdout).terminal => Endless(stdout'))
    BY <1>1, <2>1, EndSteps DEF CustodyInv
  <2>3. CASE Head(stdout).terminal
    <3>1. ~NoEnd /\ Endless(stdout') /\ Endless(events)
      BY <2>2, <2>3 DEF NoEnd, CustodyInv
    <3>2. NoEnd'
      BY <2>1, <3>1 DEF NoEnd
    <3> QED BY <2>1, <2>2, <3>1, <3>2 DEF CustodyInv
  <2>4. CASE ~Head(stdout).terminal
    <3>1. NoEnd => NoEnd'
      BY <2>1, <2>2 DEF NoEnd
    <3> QED BY <2>1, <2>2, <2>4, <3>1 DEF CustodyInv
  <2> QED BY <2>3, <2>4
<1>7. CASE FinishWrite
  BY <1>2, <1>7 DEF FinishWrite, workerVars
<1> QED BY <1>4, <1>5, <1>6, <1>7 DEF Loop

\* The worker has begun the request that owns the pipes.
LEMMA Begun ==
  ASSUME StreamTypeOK, CustodyInv, decoding # None
  PROVE  /\ decoding = inflight /\ decoding \in Requests /\ NoEnd /\ lines = <<>>
         /\ \A q \in Range(stdin) : q = Cancel
BY DEF CustodyInv, StreamTypeOK

LEMMA CustodyOfWorker == ASSUME PipesInv, Worker PROVE CustodyInv'
<1> USE DEF PipesInv
<1>1. /\ stdin \in Seq(Commands) /\ stdout \in Seq(StreamEvents) /\ events \in Seq(StreamEvents)
      /\ lines \in Seq(Requests) /\ inflight \in Requests \cup {None}
  BY DEF StreamTypeOK
<1>2. inflight' = inflight
  BY DEF Worker, ReadLine, Dispatch, Decode, Complete, DecodePanics, WriteEvent, loopVars
<1>3. CASE ReadLine
  <2>1. stdin # <<>> /\ stdin' = Tail(stdin) /\ UNCHANGED <<decoding, events, stdout>>
    BY <1>3 DEF ReadLine
  <2>2. /\ Range(stdin) = {Head(stdin)} \cup Range(stdin') /\ Distinct(stdin')
        /\ Head(stdin) = Cancel \/ Head(stdin) \notin Range(stdin')
    BY <1>1, <2>1, Taken, DistinctSteps DEF CustodyInv
  <2>3. NoEnd' <=> NoEnd
    BY <2>1 DEF NoEnd
  <2>4. CASE Head(stdin) = Cancel
    BY <1>2, <1>3, <2>1, <2>2, <2>3, <2>4 DEF ReadLine, CustodyInv
  <2>5. CASE Head(stdin) # Cancel
    <3>1. Head(stdin) = inflight /\ lines = <<>> /\ decoding = None /\ NoEnd
      BY <2>2, <2>5 DEF CustodyInv
    <3>2. lines' = <<inflight>>
      BY <1>3, <2>5, <3>1 DEF ReadLine
    <3>3. \A q \in Range(stdin') : q = Cancel
      BY <2>2, <2>5, <3>1 DEF CustodyInv
    <3> QED BY <1>2, <2>1, <2>2, <2>3, <3>1, <3>2, <3>3 DEF CustodyInv
  <2> QED BY <2>4, <2>5
<1>4. CASE Dispatch
  <2>1. /\ lines # <<>> /\ decoding' = Head(lines) /\ lines' = Tail(lines)
        /\ UNCHANGED <<stdin, events, stdout>>
    BY <1>4 DEF Dispatch
  <2>2. lines = <<inflight>> /\ NoEnd /\ Head(lines) \in Requests
    BY <1>1, <2>1, Taken DEF CustodyInv
  <2>3. decoding' = inflight /\ lines' = <<>> /\ inflight # None
    BY <2>1, <2>2
  <2>4. \A q \in Range(stdin) : q = Cancel
    BY <2>1 DEF CustodyInv
  <2>5. NoEnd'
    BY <2>1, <2>2 DEF NoEnd
  <2> QED BY <1>2, <2>1, <2>3, <2>4, <2>5 DEF CustodyInv
<1>5. CASE Decode
  <2>1. /\ decoding # None /\ decoded + 1 \in Nat /\ events' = Append(events, Token(decoding, decoded + 1))
        /\ UNCHANGED <<stdin, lines, decoding, stdout>>
    BY <1>5 DEF Decode, StreamTypeOK
  <2>2. Token(decoding, decoded + 1) \in StreamEvents /\ ~Token(decoding, decoded + 1).terminal
    BY <2>1, Begun, EventTypes
  <2>3. NoEnd /\ NoEnd' /\ OneEnd(events')
    BY <1>1, <2>1, <2>2, Begun, EndSteps DEF NoEnd, CustodyInv
  <2> QED BY <1>2, <2>1, <2>3, Begun DEF CustodyInv, NoEnd
<1>6. ASSUME NEW e \in StreamEvents, decoding # None, decoding' = None, UNCHANGED <<stdin, lines>>,
             \/ events' = Append(events, e) /\ stdout' = stdout
             \/ stdout' = Append(stdout, e) /\ events' = events
      PROVE  CustodyInv'
  <2>1. Endless(stdout) /\ Endless(events) /\ OneEnd(stdout) /\ OneEnd(events)
    BY <1>6, Begun DEF NoEnd, CustodyInv
  <2>2. OneEnd(stdout') /\ OneEnd(events') /\ (Endless(stdout') \/ Endless(events'))
    BY <1>1, <1>6, <2>1, EndSteps
  <2>3. /\ inflight # None /\ lines = <<>> /\ Distinct(stdin)
        /\ \A q \in Range(stdin) : q = Cancel
    BY <1>6, Begun DEF CustodyInv
  <2> QED BY <1>2, <1>6, <2>2, <2>3 DEF CustodyInv
<1>7. decoding # None => Completion(decoding, decoded) \in StreamEvents
  BY Begun, EventTypes DEF StreamTypeOK
<1>8. CASE Complete
  BY <1>6, <1>7, <1>8 DEF Complete
<1>9. CASE DecodePanics
  BY <1>6, <1>7, <1>9 DEF DecodePanics
<1>10. CASE WriteEvent
  <2>1. /\ events # <<>> /\ stdout' = Append(stdout, Head(events)) /\ events' = Tail(events)
        /\ UNCHANGED <<stdin, lines, decoding>>
    BY <1>10 DEF WriteEvent
  <2>2. /\ Head(events) \in StreamEvents
        /\ Endless(events) <=> Endless(events') /\ ~Head(events).terminal
        /\ OneEnd(events') /\ (Head(events).terminal => Endless(events'))
    BY <1>1, <2>1, EndSteps, Taken DEF CustodyInv
  <2>3. /\ Endless(stdout') <=> Endless(stdout) /\ ~Head(events).terminal
        /\ OneEnd(stdout) /\ (Endless(stdout) \/ ~Head(events).terminal) => OneEnd(stdout')
    BY <1>1, <2>1, <2>2, EndSteps
  <2>4. /\ OneEnd(stdout') /\ (Endless(stdout') \/ Endless(events'))
        /\ NoEnd => NoEnd'
    BY <2>2, <2>3 DEF CustodyInv, NoEnd
  <2> QED BY <1>2, <2>1, <2>2, <2>4 DEF CustodyInv
<1> QED BY <1>3, <1>4, <1>5, <1>8, <1>9, <1>10 DEF Worker

LEMMA PipesKept == PipesInv /\ [Next]_vars => PipesInv'
<1> SUFFICES ASSUME PipesInv, [Next]_vars PROVE PipesInv'
  OBVIOUS
<1>1. StreamTypeOK'
  BY TypeKept DEF PipesInv
<1>2. CASE UNCHANGED vars
  BY <1>2 DEF vars, PipesInv, StreamTypeOK, QueueInv, Waiting, Silent, CustodyInv, NoEnd
<1> QED BY <1>1, <1>2, QueueOfCallers, QueueOfLoop, QueueOfWorker, CustodyOfCallers, CustodyOfLoop,
           CustodyOfWorker DEF Next, PipesInv

LEMMA PipesInitially == Init => PipesInv
<1> SUFFICES ASSUME Init PROVE PipesInv
  OBVIOUS
<1>1. Range(<<>>) = {} /\ Distinct(<<>>) /\ OneEnd(<<>>) /\ Endless(<<>>)
  BY DEF Range, Distinct, OneEnd, Endless
<1>2. QueueInv
  BY <1>1 DEF Init, QueueInv, Silent
<1>3. CustodyInv
  BY <1>1 DEF Init, CustodyInv, NoEnd
<1> QED BY <1>2, <1>3, TypeInitially DEF PipesInv


(***************************************************************************)
(* Cancels.                                                                *)
(***************************************************************************)
LEMMA ReachAppended ==
  ASSUME NEW s \in Seq(Commands), NEW R, NEW Q, R \subseteq Q, CancelsReach(s, R), NEW e \in Commands,
         e = Cancel => \A q \in Range(s) : q # Cancel => q \in Q
  PROVE  CancelsReach(Append(s, e), Q)
<1> DEFINE a == Append(s, e)
           n == Len(s) + 1
<1>1. /\ DOMAIN a = DOMAIN s \cup {n} /\ a[n] = e /\ n \in Nat /\ DOMAIN s = 1..(n - 1)
      /\ \A i \in DOMAIN s : a[i] = s[i] /\ i \in Nat /\ i < n
  BY Appended, LenProperties
<1> HIDE DEF a, n
<1>2. ASSUME NEW j \in DOMAIN a, a[j] = Cancel, NEW i \in 1..(j - 1), a[i] # Cancel PROVE a[i] \in Q
  <2>1. CASE j = n
    <3>1. i \in DOMAIN s
      BY <1>1, <2>1
    <3> QED BY <1>1, <1>2, <2>1, <3>1 DEF Range
  <2>2. CASE j # n
    <3>1. j \in DOMAIN s /\ i \in DOMAIN s
      BY <1>1, <2>2
    <3> QED BY <1>1, <1>2, <3>1 DEF CancelsReach
  <2> QED BY <2>1, <2>2
<1> QED BY <1>2 DEF CancelsReach, a

LEMMA ReachTaken ==
  ASSUME NEW s \in Seq(Commands), NEW R, CancelsReach(s, R), s # <<>>
  PROVE  /\ CancelsReach(Tail(s), R)
         /\ Head(s) # Cancel /\ Cancel \in Range(Tail(s)) => Head(s) \in R
<1> DEFINE u == Tail(s)
<1>1. /\ Head(s) = s[1] /\ 1 \in DOMAIN s /\ Len(s) \in Nat /\ u \in Seq(Commands) /\ Len(u) = Len(s) - 1
      /\ \A i \in DOMAIN u : i \in Nat /\ i + 1 \in DOMAIN s /\ u[i] = s[i + 1]
  BY Taken
<1>2. DOMAIN u = 1..Len(u) /\ DOMAIN s = 1..Len(s)
  BY <1>1, LenProperties
<1> HIDE DEF u
<1>3. ASSUME NEW j \in DOMAIN u, u[j] = Cancel, NEW i \in 1..(j - 1), u[i] # Cancel PROVE u[i] \in R
  <2>1. i \in DOMAIN u /\ i + 1 \in 1..((j + 1) - 1) /\ j + 1 \in DOMAIN s
    BY <1>1, <1>2
  <2> QED BY <1>1, <1>3, <2>1 DEF CancelsReach
<1>4. ASSUME Head(s) # Cancel, NEW j \in DOMAIN u, u[j] = Cancel PROVE Head(s) \in R
  <2>1. 1 \in 1..((j + 1) - 1) /\ j + 1 \in DOMAIN s /\ s[j + 1] = Cancel
    BY <1>1, <1>2, <1>4
  <2> QED BY <1>1, <1>4, <2>1 DEF CancelsReach
<1> QED BY <1>3, <1>4 DEF CancelsReach, Range, u

LEMMA ReachMore == ASSUME NEW s, NEW R, NEW Q, R \subseteq Q, CancelsReach(s, R) PROVE CancelsReach(s, Q)
BY DEF CancelsReach

LEMMA CancelsOfCallers ==
  ASSUME PipesInv, CancelInv, NEW r \in Requests, Submit(r) \/ Listen(r) \/ Drop(r)
  PROVE  CancelInv'
<1> USE DEF PipesInv
<1>1. /\ chan \in Seq(Commands) /\ Cancel \in Commands /\ r \in Commands /\ r # Cancel
      /\ Range(chan) \subseteq Commands /\ Range(deferred) \subseteq Requests
  BY RangeOfSeq DEF StreamTypeOK, Commands
<1>2. UNCHANGED <<deferred, inflight, workerVars>>
  BY DEF Submit, Listen, Drop, loopVars
<1>3. ASSUME Reachable \subseteq Reachable', CancelsReach(chan', Reachable'),
             Cancel \in Range(chan') =>
               Range(deferred) \subseteq Reachable' /\ (inflight # None => inflight \in Reachable')
      PROVE  CancelInv'
  <2>1. CancelsReach(stdin, Reachable')
    BY <1>3, ReachMore DEF CancelInv
  <2>2. CancelsReach(stdin, Reachable)'
    BY <1>2, <2>1 DEF workerVars
  <2>3. CancelsReach(chan, Reachable)'
    BY <1>3
  <2> QED BY <1>2, <1>3, <2>2, <2>3 DEF CancelInv, workerVars
<1>4. CASE Submit(r)
  <2>1. chan' = Append(chan, r) /\ Reachable' = Reachable
    BY <1>4 DEF Submit, Reachable
  <2>2. CancelsReach(chan', Reachable') /\ Range(chan') = Range(chan) \cup {r}
    BY <1>1, <2>1, ReachAppended, Appended DEF CancelInv
  <2> QED BY <1>1, <1>3, <2>1, <2>2 DEF CancelInv
<1>5. CASE Listen(r) /\ UNCHANGED <<cancelled, exposed, chan>>
  BY <1>3, <1>5 DEF CancelInv, Reachable
<1>6. CASE Listen(r) /\ cancelled' = cancelled \cup {r} /\ exposed' = exposed \cup (Outstanding \ {r})
           /\ chan' = IF Len(chan) < ChannelCap THEN Append(chan, Cancel) ELSE chan
  <2>1. Reachable \subseteq Reachable' /\ Outstanding \subseteq Reachable'
    BY <1>6 DEF Reachable
  <2>2. /\ \A q \in Range(chan) : q # Cancel => q \in Reachable'
        /\ Range(deferred) \subseteq Reachable' /\ (inflight # None => inflight \in Reachable')
    BY <1>1, <2>1 DEF Outstanding, StreamTypeOK, Commands
  <2>3. CancelsReach(chan, Reachable') /\ CancelsReach(Append(chan, Cancel), Reachable')
    BY <1>1, <2>1, <2>2, ReachAppended, ReachMore DEF CancelInv
  <2> QED BY <1>3, <1>6, <2>1, <2>2, <2>3
<1>7. CASE Drop(r)
  BY <1>3, <1>7 DEF Drop, loopVars, CancelInv, Reachable
<1> QED BY <1>4, <1>5, <1>6, <1>7 DEF Listen

LEMMA CancelsOfLoop == ASSUME PipesInv, CancelInv, Loop PROVE CancelInv'
<1> USE DEF PipesInv
<1>1. /\ chan \in Seq(Commands) /\ stdin \in Seq(Commands) /\ deferred \in Seq(Requests)
      /\ Cancel \in Commands /\ Requests \subseteq Commands /\ Cancel \notin Requests
      /\ Range(stdin) \subseteq Commands
  BY RangeOfSeq DEF StreamTypeOK, Commands
<1>2. Reachable' = Reachable /\ UNCHANGED <<cut, flag, lines, decoding>>
  BY DEF Loop, NextCommand, BeginWrite, FinishWrite, CommandInFlight, ForwardEvent, DeliverCancel, callerVars, workerVars, Reachable
<1>3. chan # <<>> =>
        /\ Range(chan) = {Head(chan)} \cup Range(Tail(chan))
        /\ CancelsReach(Tail(chan), Reachable) /\ Head(chan) \in Commands
        /\ Head(chan) # Cancel /\ Cancel \in Range(Tail(chan)) => Head(chan) \in Reachable
  BY <1>1, Taken, ReachTaken DEF CancelInv
<1>4. deferred # <<>> =>
        Range(deferred) = {Head(deferred)} \cup Range(Tail(deferred)) /\ Head(deferred) \in Requests
  BY <1>1, Taken
<1>5. \A q \in Requests : /\ CancelsReach(Append(stdin, q), Reachable)
                          /\ Cancel \in Range(Append(stdin, q)) => Cancel \in Range(stdin)
  BY <1>1, Appended, ReachAppended DEF CancelInv
<1>6. (\A q \in Range(stdin) : q # Cancel => q \in Reachable) =>
        CancelsReach(Append(stdin, Cancel), Reachable)
  BY <1>1, ReachAppended DEF CancelInv
<1>7. CASE NextCommand
  <2>1. /\ lines = <<>> /\ decoding = None /\ \A q \in Range(stdin) : q = Cancel
        /\ lines' = <<>> /\ decoding' = None
    BY <1>2, <1>7, Boundary DEF NextCommand, BeginWrite
  <2>2. ASSUME CancelsReach(stdin', Reachable), CancelsReach(chan', Reachable),
               Cancel \in Range(chan') =>
                 Range(deferred') \subseteq Reachable /\ (inflight' # None => inflight' \in Reachable)
        PROVE  CancelInv'
    BY <1>2, <2>1, <2>2 DEF CancelInv
  <2>3. CASE deferred # <<>>
    BY <1>4, <1>5, <1>7, <2>2, <2>3 DEF NextCommand, BeginWrite, CancelInv
  <2>4. CASE deferred = <<>> /\ chan # <<>> /\ Head(chan) # Cancel
    <3>1. Head(chan) \in Requests /\ Range(deferred) = {}
      BY <1>3, <2>4 DEF Commands, Range
    <3> QED BY <1>3, <1>5, <1>7, <2>2, <2>4, <3>1 DEF NextCommand, BeginWrite, CancelInv
  <2>5. CASE deferred = <<>> /\ chan # <<>> /\ Head(chan) = Cancel
    <3>1. Range(deferred) = {} /\ CancelsReach(Append(stdin, Cancel), Reachable)
      BY <1>6, <2>1, <2>5 DEF Range
    <3> QED BY <1>3, <1>7, <2>2, <2>5, <3>1 DEF NextCommand, BeginWrite, DeliverCancel, CancelInv
  <2> QED BY <1>7, <2>3, <2>4, <2>5 DEF NextCommand
<1>8. CASE CommandInFlight
  <2>1. inflight # None /\ inflight' = inflight /\ chan # <<>> /\ chan' = Tail(chan)
    BY <1>8 DEF CommandInFlight
  <2>2. CASE Head(chan) = Cancel
    <3>1. inflight \in Reachable
      BY <1>3, <2>1, <2>2 DEF CancelInv
    <3>2. CancelsReach(Append(stdin, Cancel), Reachable)
      BY <1>6, <3>1 DEF CustodyInv
    <3>3. UNCHANGED deferred /\ stdin' \in {stdin, Append(stdin, Cancel)}
      BY <1>8, <2>2 DEF CommandInFlight, DeliverCancel, workerVars
    <3>4. CancelsReach(stdin', Reachable) /\ CancelsReach(chan', Reachable)
      BY <1>3, <2>1, <3>2, <3>3 DEF CancelInv
    <3> QED BY <1>2, <1>3, <2>1, <2>2, <3>1, <3>3, <3>4 DEF CancelInv
  <2>3. CASE Head(chan) # Cancel
    <3>1. Head(chan) \in Requests /\ deferred' = Append(deferred, Head(chan)) /\ stdin' = stdin
      BY <1>3, <1>8, <2>1, <2>3 DEF CommandInFlight, Commands, workerVars
    <3>2. Range(deferred') = Range(deferred) \cup {Head(chan)}
      BY <1>1, <3>1, Appended
    <3> QED BY <1>2, <1>3, <2>1, <2>3, <3>1, <3>2 DEF CancelInv
  <2> QED BY <2>2, <2>3
<1>9. CASE ForwardEvent
  <2>1. /\ UNCHANGED <<chan, deferred, stdin>> /\ stdout # <<>>
        /\ inflight' = IF Head(stdout).terminal THEN None ELSE inflight
    BY <1>9 DEF ForwardEvent
  <2>2. Head(stdout).terminal => lines = <<>> /\ decoding = None
    <3>1. Head(stdout).terminal => ~NoEnd
      BY <2>1, EndSteps DEF NoEnd, StreamTypeOK
    <3> QED BY <3>1 DEF CustodyInv
  <2> QED BY <1>2, <2>1, <2>2 DEF CancelInv
<1>10. CASE FinishWrite
  BY <1>2, <1>10 DEF FinishWrite, workerVars, CancelInv
<1> QED BY <1>7, <1>8, <1>9, <1>10 DEF Loop

LEMMA CancelsOfWorker == ASSUME PipesInv, CancelInv, Worker PROVE CancelInv'
<1> USE DEF PipesInv
<1>1. Reachable' = Reachable /\ UNCHANGED <<chan, deferred, inflight>>
  BY DEF Worker, ReadLine, Dispatch, Decode, Complete, DecodePanics, WriteEvent, callerVars, loopVars, Reachable
<1>2. ASSUME UNCHANGED <<stdin, lines, flag>>, cut' = cut \/ (flag /\ decoding # None /\ cut' = cut \cup {decoding}),
             decoding' = decoding \/ decoding' = None
      PROVE  CancelInv'
  <2>1. decoding # None => decoding = inflight
    BY DEF CustodyInv
  <2> QED BY <1>1, <1>2, <2>1 DEF CancelInv
<1>3. CASE ReadLine
  <2>1. stdin # <<>> /\ stdin' = Tail(stdin) /\ UNCHANGED <<decoding, cut>>
    BY <1>3 DEF ReadLine
  <2>2. /\ Range(stdin) = {Head(stdin)} \cup Range(stdin')
        /\ CancelsReach(stdin', Reachable)
        /\ Head(stdin) # Cancel /\ Cancel \in Range(stdin') => Head(stdin) \in Reachable
    BY <2>1, Taken, ReachTaken DEF CancelInv, StreamTypeOK
  <2>3. CASE Head(stdin) = Cancel
    BY <1>1, <1>3, <2>1, <2>2, <2>3 DEF ReadLine, CancelInv
  <2>4. CASE Head(stdin) # Cancel
    <3>1. Head(stdin) = inflight /\ decoding = None /\ flag' = flag
      BY <1>3, <2>2, <2>4 DEF ReadLine, CustodyInv
    <3> QED BY <1>1, <2>1, <2>2, <2>4, <3>1 DEF CancelInv
  <2> QED BY <2>3, <2>4
<1>4. CASE Dispatch
  BY <1>1, <1>4 DEF Dispatch, CancelInv
<1>5. CASE Complete
  <2>1. decoded \in Nat /\ MaxTokens \in Nat
    BY DEF StreamTypeOK
  <2>2. cut' = cut \/ (flag /\ decoding # None /\ cut' = cut \cup {decoding})
    BY <1>5, <2>1 DEF Complete
  <2> QED BY <1>2, <1>5, <2>2 DEF Complete
<1>6. CASE Decode \/ DecodePanics \/ WriteEvent
  BY <1>2, <1>6 DEF Decode, DecodePanics, WriteEvent
<1> QED BY <1>3, <1>4, <1>5, <1>6 DEF Worker

LEMMA CancelInitially == Init => CancelInv
<1> SUFFICES ASSUME Init PROVE CancelInv
  OBVIOUS
<1>1. Range(<<>>) = {} /\ \A R : CancelsReach(<<>>, R)
  BY DEF Range, CancelsReach
<1> QED BY <1>1 DEF Init, CancelInv

LEMMA CancelsKept == PipesInv /\ CancelInv /\ [Next]_vars => CancelInv'
<1> SUFFICES ASSUME PipesInv, CancelInv, [Next]_vars PROVE CancelInv'
  OBVIOUS
<1>1. CASE UNCHANGED vars
  BY <1>1 DEF vars, CancelInv, Reachable
<1> QED BY <1>1, CancelsOfCallers, CancelsOfLoop, CancelsOfWorker DEF Next


(***************************************************************************)
(* The stream of the request that owns the pipes.                          *)
(***************************************************************************)
\* While the pipe has no end, what it holds continues what the caller was told.
LEMMA FollowsGrows ==
  ASSUME NEW s \in Seq(StreamEvents), NEW n \in Nat, NEW e \in StreamEvents,
         Follows(s, n), e.n = IF e.terminal THEN n + Len(s) ELSE n + Len(s) + 1
  PROVE  Follows(Append(s, e), n)
<1> DEFINE a == Append(s, e)
           k == Len(s) + 1
<1>1. /\ DOMAIN a = DOMAIN s \cup {k} /\ a[k] = e /\ Len(s) \in Nat
      /\ \A i \in DOMAIN s : a[i] = s[i]
  BY Appended, LenProperties
<1>2. e.n = IF e.terminal THEN n + k - 1 ELSE n + k
  BY <1>1
<1> HIDE DEF a, k
<1> QED BY <1>1, <1>2 DEF Follows, a

LEMMA FollowsMoves ==
  ASSUME NEW s \in Seq(StreamEvents), NEW n \in Nat, Follows(s, n), s # <<>>
  PROVE  /\ Head(s).n = IF Head(s).terminal THEN n ELSE n + 1
         /\ Follows(Tail(s), n + 1)
<1> DEFINE u == Tail(s)
<1>1. /\ Head(s) = s[1] /\ 1 \in DOMAIN s
      /\ \A i \in DOMAIN u : i \in Nat /\ i + 1 \in DOMAIN s /\ u[i] = s[i + 1]
  BY Taken
<1>2. Head(s).n = IF Head(s).terminal THEN n + 1 - 1 ELSE n + 1
  BY <1>1 DEF Follows
<1> HIDE DEF u
<1>3. ASSUME NEW i \in DOMAIN u PROVE u[i].n = IF u[i].terminal THEN n + 1 + i - 1 ELSE n + 1 + i
  <2>1. s[i + 1].n = IF s[i + 1].terminal THEN n + (i + 1) - 1 ELSE n + (i + 1)
    BY <1>1 DEF Follows
  <2>2. i \in Nat /\ u[i] = s[i + 1]
    BY <1>1
  <2>3. n + (i + 1) - 1 = n + 1 + i - 1 /\ n + (i + 1) = n + 1 + i
    BY <2>2
  <2> QED BY <2>1, <2>2, <2>3
<1> QED BY <1>2, <1>3 DEF Follows, u

LEMMA StreamOfCallers ==
  ASSUME PipesInv, StreamInv, NEW r \in Requests, Submit(r) \/ Listen(r) \/ Drop(r)
  PROVE  StreamInv'
<1> USE DEF PipesInv
<1>1. UNCHANGED <<inflight, stdin, lines, decoding, decoded, events, stdout, panics>>
  BY DEF Submit, Listen, Drop, loopVars, workerVars
<1>2. Pipe' = Pipe /\ Unbegun' = Unbegun
  BY <1>1 DEF Pipe, Unbegun
<1>3. /\ heard \in [Requests -> Seq(StreamEvents)] /\ reply \in [Requests -> Seq(StreamEvents)]
      /\ caller \in [Requests -> {"unsent", "listening", "dropped", "ended"}]
      /\ inflight \in Requests \cup {None}
  BY DEF StreamTypeOK
<1>4. ASSUME panics = 0 => \A q \in Requests : OwnEvents(q, heard'[q] \o reply'[q]),
             panics = 0 /\ inflight # None =>
               /\ caller'[inflight] \in {"listening", "dropped"}
               /\ caller'[inflight] = "listening" =>
                    caller[inflight] = "listening" /\ heard'[inflight] \o reply'[inflight] = Said(inflight)
               /\ Silent(inflight) => heard'[inflight] = <<>> /\ reply'[inflight] = <<>>
      PROVE  StreamInv'
  <2> SUFFICES ASSUME panics = 0
               PROVE  /\ \A q \in Requests : HearsItself(q)'
                      /\ inflight = None => Pipe = <<>>
                      /\ inflight # None =>
                           Stream(inflight)' /\ caller'[inflight] \in {"listening", "dropped"}
                      /\ inflight # None /\ Unbegun => Pipe = <<>> /\ Silent(inflight)'
    BY <1>1, <1>2 DEF StreamInv
  <2>1. \A q \in Requests : HearsItself(q)'
    BY <1>4 DEF HearsItself, OwnEvents
  <2>2. inflight # None => Stream(inflight)'
    <3> SUFFICES ASSUME inflight # None PROVE Stream(inflight)'
      OBVIOUS
    <3>1. Stream(inflight)
      BY DEF StreamInv
    <3>2. caller'[inflight] = "listening" => caller[inflight] = "listening" /\ Said(inflight)' = Said(inflight)
      BY <1>1, <1>4 DEF Said
    <3> QED BY <1>1, <1>2, <3>1, <3>2 DEF Stream
  <2>3. inflight # None /\ Unbegun => Silent(inflight)'
    BY <1>1, <1>4 DEF StreamInv, Silent
  <2> QED BY <1>4, <2>1, <2>2, <2>3 DEF StreamInv
<1>5. panics = 0 => \A q \in Requests : OwnEvents(q, Said(q))
  BY HearingIsOwn DEF StreamInv
<1>6. CASE Submit(r)
  <2>1. UNCHANGED <<heard, reply>> /\ \A q \in Requests \ {r} : caller'[q] = caller[q]
    BY <1>3, <1>6 DEF Submit
  <2>2. r # inflight
    BY <1>6 DEF Submit, QueueInv
  <2>3. panics = 0 /\ inflight # None => caller[inflight] \in {"listening", "dropped"}
    BY DEF StreamInv
  <2> QED BY <1>3, <1>4, <1>5, <2>1, <2>2, <2>3 DEF Said, Silent
<1>7. CASE Listen(r)
  <2>1. /\ reply[r] # <<>> /\ reply'[r] = Tail(reply[r]) /\ heard'[r] = Append(heard[r], Head(reply[r]))
        /\ \A q \in Requests \ {r} : caller'[q] = caller[q] /\ heard'[q] = heard[q] /\ reply'[q] = reply[q]
        /\ caller[r] = "listening" /\ (caller'[r] = "listening" \/ Head(reply[r]).terminal)
        /\ caller'[r] # "listening" => caller'[r] = "ended"
    BY <1>3, <1>7 DEF Listen
  <2>2. heard[r] \in Seq(StreamEvents) /\ reply[r] \in Seq(StreamEvents)
    BY <1>3
  <2>3. \A q \in Requests : heard'[q] \o reply'[q] = Said(q)
    <3>1. Append(heard[r], Head(reply[r])) \o Tail(reply[r]) = heard[r] \o reply[r]
      <4> DEFINE x == heard[r]
                 y == reply[r]
      <4>1. x \in Seq(StreamEvents) /\ y \in Seq(StreamEvents) /\ y # <<>>
        BY <2>1, <2>2
      <4> HIDE DEF x, y
      <4>2. Append(x, Head(y)) \o Tail(y) = x \o y
        BY <4>1, Moved
      <4> QED BY <4>2 DEF x, y
    <3>2. heard'[r] \o reply'[r] = heard[r] \o reply[r]
      BY <2>1, <3>1
    <3> QED BY <2>1, <3>2 DEF Said
  <2>4. ASSUME panics = 0, inflight = r PROVE ~Head(reply[r]).terminal
    <3>1. Endless(Said(r))
      BY <1>3, <2>1, <2>4 DEF StreamInv, Stream
    <3>2. Head(reply[r]) \in Range(Said(r))
      BY <2>1, <2>2, RangeConcatenation, Taken DEF Said
    <3> QED BY <3>1, <3>2 DEF Endless, Range
  <2>5. panics = 0 /\ inflight # None => caller[inflight] \in {"listening", "dropped"}
    BY DEF StreamInv
  <2>6. panics = 0 /\ inflight # None =>
          /\ caller'[inflight] \in {"listening", "dropped"}
          /\ caller'[inflight] = "listening" => caller[inflight] = "listening"
    BY <1>3, <2>1, <2>4, <2>5
  <2>7. inflight # None /\ Silent(inflight) => heard'[inflight] = <<>> /\ reply'[inflight] = <<>>
    BY <1>3, <2>1 DEF Silent
  <2> QED BY <1>3, <1>4, <1>5, <2>3, <2>6, <2>7
<1>8. CASE Drop(r)
  <2>1. /\ heard' = heard /\ reply'[r] = <<>> /\ caller'[r] = "dropped"
        /\ \A q \in Requests \ {r} : caller'[q] = caller[q] /\ reply'[q] = reply[q]
    BY <1>3, <1>8 DEF Drop
  <2>2. heard[r] \in Seq(StreamEvents) /\ reply[r] \in Seq(StreamEvents)
    BY <1>3
  <2>3. panics = 0 => OwnEvents(r, heard[r])
    BY <1>5, <2>2, OwnPrefix DEF Said
  <2>4. heard'[r] \o reply'[r] = heard[r]
    BY <2>1, <2>2, ConcatEmptySeq
  <2>5. panics = 0 => \A q \in Requests : OwnEvents(q, heard'[q] \o reply'[q])
    BY <1>5, <2>1, <2>3, <2>4 DEF Said
  <2>6. panics = 0 /\ inflight # None => caller[inflight] \in {"listening", "dropped"}
    BY DEF StreamInv
  <2> QED BY <1>3, <1>4, <2>1, <2>5, <2>6 DEF Said, Silent
<1> QED BY <1>6, <1>7, <1>8

LEMMA StreamOfLoop == ASSUME PipesInv, StreamInv, Loop PROVE StreamInv'
<1> USE DEF PipesInv
<1>1. /\ heard \in [Requests -> Seq(StreamEvents)] /\ reply \in [Requests -> Seq(StreamEvents)]
      /\ stdout \in Seq(StreamEvents) /\ events \in Seq(StreamEvents) /\ Pipe \in Seq(StreamEvents)
      /\ chan \in Seq(Commands) /\ deferred \in Seq(Requests) /\ stdin \in Seq(Commands)
      /\ inflight \in Requests \cup {None} /\ Cancel \in Commands /\ Cancel \notin Requests
      /\ Requests \subseteq Commands
  BY PipeTyped DEF StreamTypeOK, Commands
<1>2. UNCHANGED <<caller, heard, lines, decoding, decoded, events, panics>>
  BY DEF Loop, NextCommand, BeginWrite, FinishWrite, CommandInFlight, ForwardEvent, DeliverCancel, callerVars, workerVars
<1>3. panics = 0 =>
        /\ \A q \in Requests : HearsItself(q)
        /\ inflight = None => Pipe = <<>>
        /\ inflight # None => Stream(inflight) /\ caller[inflight] \in {"listening", "dropped"}
        /\ inflight # None /\ Unbegun => Pipe = <<>> /\ Silent(inflight)
  BY DEF StreamInv
<1>4. ASSUME UNCHANGED <<reply, stdout>>
      PROVE  Pipe' = Pipe /\ \A q \in Requests : /\ HearsItself(q)' <=> HearsItself(q)
                                                 /\ Said(q)' = Said(q) /\ (Silent(q)' <=> Silent(q))
  BY <1>2, <1>4 DEF Pipe, Said, Silent, HearsItself
<1>5. CASE NextCommand
  <2>1. inflight = None /\ UNCHANGED <<reply, stdout>>
    BY <1>5 DEF NextCommand, BeginWrite, DeliverCancel, callerVars
  <2>2. lines' = <<>> /\ decoding' = None
    BY <1>2, <2>1, Boundary
  <2>3. CASE inflight' = None
    BY <1>2, <1>3, <1>4, <2>1, <2>3 DEF StreamInv
  <2>4. CASE inflight' # None
    <3>1. PICK q \in Requests : inflight' = q /\ Waiting(q)
      <4>1. deferred # <<>> => Head(deferred) \in Requests /\ Waiting(Head(deferred))
        BY <1>1, Taken DEF QueueInv
      <4>2. chan # <<>> /\ Head(chan) # Cancel => Head(chan) \in Requests /\ Waiting(Head(chan))
        BY <1>1, Taken DEF QueueInv, Commands
      <4> QED BY <1>5, <2>1, <2>4, <4>1, <4>2 DEF NextCommand, BeginWrite
    <3>2. Said(q) = <<>> /\ Len(<<>>) = 0 /\ Silent(q)'
      BY <1>4, <2>1, <3>1, PipeTyped DEF Waiting
    <3>3. Endless(<<>>) /\ Follows(<<>>, 0)
      BY DEF Endless, Follows
    <3>4. panics = 0 => Pipe' = <<>>
      BY <1>3, <1>4, <2>1
    <3>5. panics = 0 => Stream(q)'
      BY <1>4, <2>1, <2>2, <3>2, <3>3, <3>4 DEF Stream
    <3> QED BY <1>2, <1>3, <1>4, <2>1, <3>1, <3>2, <3>4, <3>5 DEF StreamInv, Waiting, Stream, Silent
  <2> QED BY <2>3, <2>4
<1>6. CASE CommandInFlight
  <2>1. /\ inflight # None /\ UNCHANGED <<inflight, reply, stdout>>
        /\ stdin' = stdin \/ stdin' = Append(stdin, Cancel)
    BY <1>6 DEF CommandInFlight, DeliverCancel, callerVars, workerVars
  <2>2. Unbegun' => Unbegun
    <3>1. Range(Append(stdin, Cancel)) = Range(stdin) \cup {Cancel}
      BY <1>1, Appended
    <3>2. Range(stdin') \subseteq Range(stdin) \cup {Cancel}
      BY <2>1, <3>1
    <3> QED BY <1>2, <3>2 DEF Unbegun
  <2>3. panics = 0 => Stream(inflight)'
    BY <1>1, <1>2, <1>3, <1>4, <2>1 DEF Stream, Said
  <2>4. Unbegun /\ panics = 0 => Silent(inflight)'
    BY <1>2, <1>3, <2>1 DEF Silent
  <2> QED BY <1>2, <1>3, <1>4, <2>1, <2>2, <2>3, <2>4 DEF StreamInv
<1>7. CASE ForwardEvent
  <2> DEFINE e == Head(stdout)
             r == inflight
  <2>1. /\ r \in Requests /\ stdout # <<>> /\ stdout' = Tail(stdout) /\ stdin' = stdin
        /\ \A q \in Requests \ {r} : reply'[q] = reply[q]
        /\ reply'[r] = IF caller[r] = "listening" THEN Append(reply[r], e) ELSE reply[r]
        /\ inflight' = IF e.terminal THEN None ELSE r
    BY <1>1, <1>7 DEF ForwardEvent
  <2>2. Pipe # <<>> /\ e = Head(Pipe) /\ Pipe' = Tail(Pipe) /\ e \in StreamEvents
    BY <1>1, <1>2, <2>1, HeadOfConcat, Taken DEF Pipe
  <2>3. ~Unbegun' \/ panics # 0
    BY <1>1, <1>2, <1>3, <2>1, <2>2 DEF Unbegun
  <2>4. /\ heard[r] \in Seq(StreamEvents) /\ reply[r] \in Seq(StreamEvents)
        /\ Said(r) \in Seq(StreamEvents) /\ Len(Said(r)) \in Nat /\ Said(r) = heard[r] \o reply[r]
    BY <1>1, <2>1, PipeTyped DEF Said
  <2> HIDE DEF e, r
  <2>5. /\ 1 \in DOMAIN Pipe /\ e = Pipe[1] /\ Len(Pipe') = Len(Pipe) - 1 /\ Len(Pipe) \in Nat
        /\ Pipe' \in Seq(StreamEvents)
        /\ \A i \in DOMAIN Pipe' : i \in Nat /\ i + 1 \in DOMAIN Pipe /\ Pipe'[i] = Pipe[i + 1]
    BY <1>1, <2>2, Taken
  <2>6. ASSUME panics = 0
        PROVE  /\ e.req = r /\ (e.terminal => Pipe' = <<>>)
               /\ \A i \in DOMAIN Pipe' : Pipe'[i].req = r /\ (Pipe'[i].terminal => i = Len(Pipe'))
    <3>1. \A i \in DOMAIN Pipe : Pipe[i].req = r /\ (Pipe[i].terminal => i = Len(Pipe))
      BY <1>3, <2>1, <2>6 DEF Stream, r
    <3>2. e.terminal => Len(Pipe') = 0
      BY <2>5, <3>1
    <3> QED BY <2>5, <3>1, <3>2, EmptySeq
  <2>7. ASSUME panics = 0, caller[r] = "listening"
        PROVE  /\ OwnEvents(r, Append(Said(r), e)) /\ (~e.terminal => Endless(Append(Said(r), e)))
               /\ heard'[r] \o reply'[r] = Append(Said(r), e)
               /\ Len(Append(Said(r), e)) = Len(Said(r)) + 1
               /\ Follows(Pipe', Len(Said(r)) + 1)
               /\ decoding # None => decoded = Len(Said(r)) + 1 + Len(Pipe')
    <3>1. /\ Endless(Said(r)) /\ Follows(Pipe, Len(Said(r)))
          /\ decoding # None => decoded = Len(Said(r)) + Len(Pipe)
          /\ OwnEvents(r, Said(r))
      BY <1>3, <2>1, <2>7, HearingIsOwn DEF Stream, r
    <3>2. (e.n = IF e.terminal THEN Len(Said(r)) ELSE Len(Said(r)) + 1) /\ Follows(Pipe', Len(Said(r)) + 1)
      BY <1>1, <2>2, <2>4, <3>1, FollowsMoves
    <3>3. OwnEvents(r, Append(Said(r), e)) /\ (~e.terminal => Endless(Append(Said(r), e)))
      BY <2>1, <2>2, <2>4, <2>6, <2>7, <3>1, <3>2, OwnGrows
    <3>4. heard'[r] \o reply'[r] = Append(Said(r), e)
      <4> DEFINE x == heard[r]
                 y == reply[r]
      <4>1. x \in Seq(StreamEvents) /\ y \in Seq(StreamEvents) /\ Said(r) = x \o y
            /\ heard'[r] = x /\ reply'[r] = Append(y, e)
        BY <1>2, <2>1, <2>4, <2>7
      <4> HIDE DEF x, y
      <4>2. x \o Append(y, e) = Append(x \o y, e)
        BY <2>2, <4>1, AppendToConcat
      <4> QED BY <4>1, <4>2
    <3>5. Len(Append(Said(r), e)) = Len(Said(r)) + 1
      BY <2>2, <2>4, AppendProperties
    <3>6. Len(Said(r)) + Len(Pipe) = Len(Said(r)) + 1 + Len(Pipe')
      <4>1. /\ Len(Said(r)) \in Nat /\ Len(Pipe) \in Nat
            /\ Len(Pipe') = Len(Pipe) - 1
        BY <2>4, <2>5
      <4> DEFINE n == Len(Said(r))
                 k == Len(Pipe)
                 l == Len(Pipe')
      <4>2. n \in Nat /\ k \in Nat /\ l = k - 1
        BY <4>1
      <4> HIDE DEF n, k, l
      <4>3. n + k = n + 1 + l
        BY ONLY <4>2
      <4> QED BY <4>3 DEF n, k, l
    <3> QED BY <3>1, <3>2, <3>3, <3>4, <3>5, <3>6
  <2>8. ASSUME panics = 0, NEW q \in Requests PROVE HearsItself(q)'
    <3>1. OwnEvents(q, Said(q))
      BY <1>3, <2>8, HearingIsOwn
    <3>2. OwnEvents(q, heard'[q] \o reply'[q])
      BY <1>2, <2>1, <2>7, <2>8, <3>1 DEF Said
    <3> QED BY <3>2 DEF HearsItself, OwnEvents
  <2>9. ASSUME panics = 0, ~e.terminal PROVE Stream(r)' /\ inflight' = r
    <3>1. inflight' = r /\ r' = r
      BY <2>1, <2>9 DEF r
    <3>2. caller[r] = "listening" => Said(r)' = Append(Said(r), e)
      BY <1>2, <2>7, <2>9, <3>1 DEF Said
    <3> QED BY <1>2, <2>6, <2>7, <2>9, <3>1, <3>2 DEF Stream
  <2>10. panics = 0 => caller[r] \in {"listening", "dropped"}
    BY <1>3, <2>1 DEF r
  <2> QED BY <1>2, <2>1, <2>3, <2>6, <2>8, <2>9, <2>10 DEF StreamInv, r
<1>8. CASE FinishWrite
  BY <1>8 DEF FinishWrite, callerVars, workerVars, StreamInv, HearsItself, Stream, Said, Pipe, Unbegun, Silent
<1> QED BY <1>5, <1>6, <1>7, <1>8 DEF Loop

LEMMA StreamOfWorker == ASSUME PipesInv, StreamInv, Worker PROVE StreamInv'
<1> USE DEF PipesInv
<1>1. /\ stdout \in Seq(StreamEvents) /\ events \in Seq(StreamEvents) /\ Pipe \in Seq(StreamEvents)
      /\ stdin \in Seq(Commands) /\ lines \in Seq(Requests) /\ Len(Pipe) \in Nat
      /\ inflight \in Requests \cup {None} /\ decoded \in Nat /\ panics \in Nat
  BY PipeTyped, LenProperties DEF StreamTypeOK
<1>2. UNCHANGED <<caller, heard, reply, inflight>>
  BY DEF Worker, ReadLine, Dispatch, Decode, Complete, DecodePanics, WriteEvent, callerVars, loopVars
<1>3. panics = 0 =>
        /\ \A q \in Requests : HearsItself(q)
        /\ inflight = None => Pipe = <<>>
        /\ inflight # None => Stream(inflight) /\ caller[inflight] \in {"listening", "dropped"}
        /\ inflight # None /\ Unbegun => Pipe = <<>> /\ Silent(inflight)
  BY DEF StreamInv
<1>4. \A q \in Requests : /\ HearsItself(q)' <=> HearsItself(q)
                          /\ Said(q)' = Said(q) /\ (Silent(q)' <=> Silent(q))
  BY <1>2 DEF Said, Silent, HearsItself
<1>5. Said(inflight)' = Said(inflight) /\ (Silent(inflight)' <=> Silent(inflight))
  BY <1>2 DEF Said, Silent
<1>6. CASE ReadLine
  <2>1. UNCHANGED <<decoding, decoded, events, stdout, panics>> /\ Pipe' = Pipe
    BY <1>6 DEF ReadLine, Pipe
  <2>2. Unbegun' => Unbegun
    <3>1. stdin # <<>> /\ Range(stdin) = {Head(stdin)} \cup Range(stdin')
      BY <1>1, <1>6, Taken DEF ReadLine
    <3>2. Head(stdin) = Cancel => lines' = lines
      BY <1>6 DEF ReadLine
    <3> QED BY <3>1, <3>2 DEF Unbegun
  <2>3. panics = 0 /\ inflight # None => Stream(inflight)'
    BY <1>2, <1>3, <1>5, <2>1 DEF Stream
  <2> QED BY <1>2, <1>3, <1>4, <1>5, <2>1, <2>2, <2>3 DEF StreamInv
<1>7. CASE Dispatch
  <2>1. /\ lines # <<>> /\ lines' = Tail(lines) /\ decoded' = 0
        /\ UNCHANGED <<stdin, events, stdout, panics>> /\ Pipe' = Pipe
    BY <1>7 DEF Dispatch, Pipe
  <2>2. Unbegun /\ lines = <<inflight>> /\ lines' = <<>>
    BY <2>1 DEF Unbegun, CustodyInv
  <2>3. inflight # None
    <3>1. Head(lines) \in Requests /\ Head(lines) = inflight
      BY <1>1, <2>1, <2>2, Taken
    <3> QED BY <3>1
  <2>4. panics = 0 => Pipe = <<>> /\ Said(inflight) = <<>>
    BY <1>1, <1>3, <2>2, <2>3, PipeTyped
  <2>5. panics = 0 => Stream(inflight)'
    <3>1. panics = 0 => decoded' = Len(Said(inflight)) + Len(Pipe)
      BY <2>1, <2>4, EmptySeq
    <3> QED BY <1>2, <1>3, <1>5, <2>1, <2>3, <3>1 DEF Stream
  <2> QED BY <1>2, <1>3, <1>4, <1>5, <2>1, <2>2, <2>3, <2>5 DEF StreamInv
<1>8. ASSUME decoding # None, UNCHANGED <<stdin, lines, stdout, panics>>, NEW e \in StreamEvents,
             events' = Append(events, e), e.req = decoding,
             IF e.terminal THEN decoding' = None /\ e.n = decoded
                           ELSE decoding' = decoding /\ decoded' = decoded + 1 /\ e.n = decoded + 1
      PROVE  StreamInv'
  <2>1. inflight # None /\ inflight \in Requests /\ e.req = inflight /\ NoEnd /\ ~Unbegun
    BY <1>8, Begun DEF Unbegun
  <2>2. Endless(Pipe) /\ Pipe' = Append(Pipe, e)
    BY <1>1, <1>8, <2>1, PipeEndless, AppendToConcat DEF Pipe
  <2>3. ~Unbegun'
    BY <1>8, <2>1 DEF Unbegun
  <2>4. ASSUME panics = 0 PROVE Stream(inflight)'
    <3> DEFINE n == Len(Said(inflight))
               k == Len(Pipe)
               a == Append(Pipe, e)
    <3>1. /\ DOMAIN a = DOMAIN Pipe \cup {k + 1} /\ a[k + 1] = e /\ Len(a) = k + 1 /\ k \in Nat /\ n \in Nat
          /\ \A i \in DOMAIN Pipe : a[i] = Pipe[i]
      BY <1>1, <2>1, Appended, PipeTyped
    <3>2. Stream(inflight)
      BY <1>3, <2>1, <2>4
    <3>3. \A i \in DOMAIN a : a[i].req = inflight /\ (a[i].terminal => i = Len(a))
      <4> HIDE DEF a, n, k
      <4>1. \A i \in DOMAIN Pipe : Pipe[i].req = inflight /\ ~Pipe[i].terminal
        BY <2>2, <3>2 DEF Stream, Endless
      <4> QED BY <2>1, <3>1, <4>1
    <3>4. ASSUME caller[inflight] = "listening" PROVE Follows(a, n) /\ (decoding' # None => decoded' = n + Len(a))
      <4>1. Follows(Pipe, n) /\ decoded = n + k
        BY <1>8, <3>2, <3>4 DEF Stream
      <4>2. e.n = IF e.terminal THEN n + k ELSE n + k + 1
        BY <1>8, <4>1
      <4> HIDE DEF n
      <4>3. Follows(a, n)
        BY <1>1, <3>1, <4>1, <4>2, FollowsGrows
      <4> HIDE DEF a, k
      <4>4. decoding' # None => decoded' = n + (k + 1)
        BY <1>8, <3>1, <4>1
      <4> QED BY <3>1, <4>3, <4>4
    <3>5. Pipe' = a
      BY <2>2
    <3> HIDE DEF a
    <3>6. caller[inflight] = "listening" => Endless(Said(inflight))
      BY <3>2 DEF Stream
    <3> QED BY <1>2, <1>5, <3>3, <3>4, <3>5, <3>6 DEF Stream
  <2> QED BY <1>2, <1>3, <1>4, <1>8, <2>1, <2>3, <2>4 DEF StreamInv
<1>9. CASE Decode
  <2>1. /\ decoding # None /\ decoded' = decoded + 1 /\ events' = Append(events, Token(decoding, decoded + 1))
        /\ UNCHANGED <<stdin, lines, decoding, stdout, panics>>
    BY <1>9 DEF Decode
  <2>2. decoding \in Requests /\ decoded + 1 \in Nat
    BY <1>1, <2>1, Begun
  <2> QED BY <1>8, <2>1, <2>2, EventTypes
<1>10. CASE Complete
  <2>1. /\ decoding # None /\ decoding' = None /\ events' = Append(events, Completion(decoding, decoded))
        /\ UNCHANGED <<stdin, lines, decoded, stdout, panics>>
    BY <1>10 DEF Complete
  <2>2. decoding \in Requests
    BY <2>1, Begun
  <2> QED BY <1>1, <1>8, <2>1, <2>2, EventTypes
<1>11. CASE DecodePanics
  <2>1. panics' # 0
    BY <1>1, <1>11 DEF DecodePanics
  <2> QED BY <2>1 DEF StreamInv
<1>12. CASE WriteEvent
  <2>1. UNCHANGED <<stdin, lines, decoding, decoded, panics>> /\ Unbegun' = Unbegun
    BY <1>12 DEF WriteEvent, Unbegun
  <2>2. Pipe' = Pipe
    BY <1>1, <1>12, Moved DEF WriteEvent, Pipe
  <2>3. panics = 0 /\ inflight # None => Stream(inflight)'
    BY <1>2, <1>3, <1>5, <2>1, <2>2 DEF Stream
  <2> QED BY <1>2, <1>3, <1>4, <1>5, <2>1, <2>2, <2>3 DEF StreamInv
<1> QED BY <1>6, <1>7, <1>9, <1>10, <1>11, <1>12 DEF Worker

LEMMA StreamInitially == Init => StreamInv
<1> SUFFICES ASSUME Init PROVE StreamInv
  OBVIOUS
<1>1. \A r \in Requests : heard[r] = <<>> /\ reply[r] = <<>>
  BY DEF Init
<1>2. /\ \A r \in Requests : Said(r) = <<>>
      /\ Pipe = <<>>
  <2>1. StreamTypeOK
    BY TypeInitially
  <2> QED BY <1>1, <2>1, PipeTyped DEF Init, Silent
<1>3. \A r : OwnEvents(r, <<>>)
  BY DEF OwnEvents
<1> QED BY <1>2, <1>3, HearingIsOwn DEF Init, StreamInv

LEMMA StreamKept == PipesInv /\ StreamInv /\ [Next]_vars => StreamInv'
<1> SUFFICES ASSUME PipesInv, StreamInv, [Next]_vars PROVE StreamInv'
  OBVIOUS
<1>1. CASE UNCHANGED vars
  BY <1>1 DEF vars, StreamInv, HearsItself, Stream, Said, Pipe, Unbegun, Silent
<1> QED BY <1>1, StreamOfCallers, StreamOfLoop, StreamOfWorker DEF Next

(***************************************************************************)
(* The write.                                                              *)
(***************************************************************************)
LEMMA WriteOfCallers ==
  ASSUME StreamTypeOK, WriteInv, NEW r \in Requests, Submit(r) \/ Listen(r) \/ Drop(r)
  PROVE  WriteInv'
<1>1. /\ UNCHANGED <<write, inflight>> /\ exposed \subseteq exposed'
      /\ heard \in [Requests -> Seq(StreamEvents)] /\ reply \in [Requests -> Seq(StreamEvents)]
      /\ cancelled \subseteq Requests
  BY DEF Submit, Listen, Drop, loopVars, StreamTypeOK
<1>2. CASE Submit(r)
  BY <1>1, <1>2 DEF Submit, WriteInv, Silent
<1>3. CASE Listen(r)
  <2>1. /\ reply[r] # <<>> /\ \A q \in Requests \ {r} : heard'[q] = heard[q] /\ reply'[q] = reply[q]
        /\ heard'[r] = Append(heard[r], Head(reply[r])) /\ cancelled' \subseteq cancelled \cup {r}
    BY <1>1, <1>3 DEF Listen
  <2>2. heard'[r] # <<>>
    <3>1. heard[r] \in Seq(StreamEvents) /\ Head(reply[r]) \in StreamEvents
      BY <1>1, <2>1, Taken
    <3> QED BY <2>1, <3>1, Appended
  <2>3. write # "done" => r # inflight
    BY <2>1 DEF WriteInv, Silent
  <2> QED BY <1>1, <2>1, <2>2, <2>3 DEF WriteInv, Silent
<1>4. CASE Drop(r)
  <2>1. /\ heard' = heard /\ cancelled' = cancelled
        /\ \A q \in Requests : reply'[q] = reply[q] \/ reply'[q] = <<>>
    BY <1>1, <1>4 DEF Drop
  <2> QED BY <1>1, <2>1 DEF WriteInv, Silent
<1> QED BY <1>2, <1>3, <1>4

\* A request whose line is begun comes from a queue, where none has been heard
\* of; a cancel that finds it so was posted by another caller while it waited.
LEMMA WriteOfLoop == ASSUME PipesInv, CancelInv, WriteInv, Loop PROVE WriteInv'
<1> USE DEF PipesInv
<1>1. /\ chan \in Seq(Commands) /\ deferred \in Seq(Requests)
      /\ cancelled \subseteq Requests /\ None \notin Requests
  BY DEF StreamTypeOK
<1>2. UNCHANGED <<cancelled, exposed, heard>>
  BY DEF Loop, NextCommand, BeginWrite, FinishWrite, CommandInFlight, ForwardEvent, callerVars
<1>3. CASE NextCommand
  <2>1. reply' = reply /\ inflight = None /\ write = "done"
    BY <1>1, <1>3 DEF NextCommand, callerVars, StreamTypeOK, WriteInv
  <2>2. deferred # <<>> => Head(deferred) \in Requests /\ Silent(Head(deferred))
    BY <1>1, Taken DEF QueueInv, Waiting
  <2>3. chan # <<>> /\ Head(chan) # Cancel => Head(chan) \in Requests /\ Silent(Head(chan))
    BY <1>1, Taken DEF QueueInv, Waiting, Commands
  <2>4. \/ write' = "begun" /\ inflight' \in Requests /\ Silent(inflight')
        \/ write' = "done"
    BY <1>3, <2>1, <2>2, <2>3 DEF NextCommand, BeginWrite
  <2> QED BY <1>2, <2>1, <2>4 DEF WriteInv, Silent
<1>4. CASE CommandInFlight
  <2>1. /\ inflight # None /\ chan # <<>> /\ UNCHANGED <<reply, inflight>>
        /\ write' = write \/ (write = "begun" /\ write' = "stuck" /\ Head(chan) = Cancel)
    BY <1>4 DEF CommandInFlight, callerVars
  <2>2. write' # write => inflight \in exposed
    <3>1. Head(chan) = Cancel => inflight \in Reachable
      BY <1>1, <2>1, Taken DEF CancelInv
    <3>2. write = "begun" => inflight \notin cancelled
      BY DEF WriteInv, Silent
    <3> QED BY <2>1, <3>1, <3>2 DEF Reachable
  <2> QED BY <1>2, <2>1, <2>2 DEF WriteInv, Silent
<1>5. CASE FinishWrite
  BY <1>2, <1>5 DEF FinishWrite, WriteInv
<1>6. CASE ForwardEvent
  BY <1>2, <1>6 DEF ForwardEvent, WriteInv
<1> QED BY <1>3, <1>4, <1>5, <1>6 DEF Loop

LEMMA WriteKept == PipesInv /\ CancelInv /\ WriteInv /\ [Next]_vars => WriteInv'
<1> SUFFICES ASSUME PipesInv, CancelInv, WriteInv, [Next]_vars PROVE WriteInv'
  OBVIOUS
<1>1. CASE UNCHANGED vars
  BY <1>1 DEF vars, WriteInv, Silent
<1>2. CASE Worker
  <2>1. UNCHANGED <<callerVars, loopVars>>
    BY <1>2 DEF Worker, ReadLine, Dispatch, Decode, Complete, DecodePanics, WriteEvent
  <2> QED BY <2>1 DEF callerVars, loopVars, WriteInv, Silent
<1> QED BY <1>1, <1>2, WriteOfCallers, WriteOfLoop DEF Next, PipesInv

(***************************************************************************)
(* What the module promises, in every execution.                           *)
(***************************************************************************)
\* The requests' custody, the reach of the cancels and the stream of the
\* request in flight hold together, whatever is cancelled, dropped, stuck or
\* panics.
THEOREM GSInvariant == Spec => []GSInv
<1>1. Init => GSInv
  <2>1. Init => WriteInv
    BY DEF Init, WriteInv
  <2> QED BY <2>1, PipesInitially, CancelInitially, StreamInitially DEF GSInv
<1>2. GSInv /\ [Next]_vars => GSInv'
  BY PipesKept, CancelsKept, StreamKept, WriteKept DEF GSInv
<1> QED BY <1>1, <1>2, PTL DEF Spec

\* Nobody hears another request's events, and everyone hears each token of its
\* own once, in order and nothing after the end (send_request drains the events
\* of a dropped receiver up to the terminal one).
THEOREM StreamsAreOwn == Spec => []OwnStream
<1>1. GSInv => OwnStream
  BY DEF GSInv, StreamInv, OwnStream
<1> QED BY <1>1, GSInvariant, PTL

\* On return from send_request the pipe is at a request boundary.
THEOREM BoundaryIsClean == Spec => []PipeAtBoundary
<1>1. GSInv => PipeAtBoundary
  <2> SUFFICES ASSUME GSInv, panics = 0, inflight = None
               PROVE  /\ events = <<>> /\ stdout = <<>> /\ lines = <<>> /\ decoding = None
                      /\ \A i \in DOMAIN stdin : stdin[i] = Cancel
    BY DEF PipeAtBoundary
  <2>1. lines = <<>> /\ decoding = None /\ \A q \in Range(stdin) : q = Cancel
    BY Boundary DEF GSInv, PipesInv
  <2>2. stdout = <<>> /\ events = <<>>
    BY PipeTyped DEF GSInv, PipesInv, StreamInv
  <2> QED BY <2>1, <2>2 DEF Range
<1> QED BY <1>1, GSInvariant, PTL

\* A cancel cuts short its own caller's request or one that was waiting when it
\* was posted, even when decodes panic: the flag is lowered at each request.
THEOREM CutsWhatWaited == Spec => []CutOnlyWhatWaited
<1>1. GSInv => CutOnlyWhatWaited
  BY DEF GSInv, CancelInv, CutOnlyWhatWaited, Reachable
<1> QED BY <1>1, GSInvariant, PTL

\* The loop comes to wait for itself over a cancel that another caller posted
\* while the request being written was waiting, and over no other: the first
\* event of a request, without which its caller has nothing to cancel, comes
\* after its line is written.
THEOREM StuckOnStale == Spec => []StuckByStaleCancel
<1>1. GSInv => StuckByStaleCancel
  BY DEF GSInv, WriteInv, StuckByStaleCancel
<1> QED BY <1>1, GSInvariant, PTL
===============================================================================
