--------------------------- MODULE GenerationStream ---------------------------
(***************************************************************************)
(* One request at a time over a worker's pipes: the manager's loop writes  *)
(* a request line and forwards the worker's events until the terminal one  *)
(* (process/unix.rs, send_request), the worker decodes token by token      *)
(* (worker/src/main.rs), and a caller that has heard enough stops the      *)
(* decode with a cancel that travels out of band (generate/worker.rs), or  *)
(* drops its receiver.                                                     *)
(*                                                                         *)
(* The manager and its worker stay alive here: their deaths, stops and     *)
(* panics are WorkerManager's. A request is submitted at most once.        *)
(***************************************************************************)
EXTENDS Naturals, Sequences, FiniteSets, Functions

CONSTANTS
  Requests,
  None,
  Cancel,      \* ManagerCommand::CancelActiveRequest, and its line on the worker's stdin
  ChannelCap,  \* capacity of the manager's command channel (32 in the code)
  MaxTokens,   \* bound: the tokens of a generation that runs to its end
  MaxPanics    \* bound: the decodes that panic

ASSUME StreamAssumption ==
  /\ None \notin Requests /\ Cancel \notin Requests
  /\ ChannelCap \in Nat \ {0} /\ MaxTokens \in Nat \ {0} /\ MaxPanics \in Nat

VARIABLES
  \* the callers
  caller,    \* unsent, listening, dropped (its receiver), or ended
  cancelled, \* the callers that asked the worker to stop
  heard,     \* the events each caller has taken off its reply channel
  reply,     \* the events waiting in each reply channel
  \* the manager's loop
  chan,      \* its command channel
  deferred,  \* commands held back during a request
  inflight,  \* the request that owns the pipes
  write,     \* the write of its line: done, begun (the pipe may be full), or stuck
  \* the worker process
  stdin,     \* lines written and not yet read
  lines,     \* requests its reader thread has queued for the main loop
  flag,      \* cancel_flag
  decoding,  \* the request being decoded
  decoded,   \* tokens emitted for it so far
  events,    \* event_tx: events its printer task has not yet written
  stdout,    \* events written and not yet read by the loop
  panics,    \* decodes that have panicked
  cut,       \* history: the requests whose decode the flag cut short
  exposed    \* history: the requests outstanding when another caller cancelled

callerVars == <<caller, cancelled, heard, reply, exposed>>
loopVars   == <<chan, deferred, inflight, write>>
workerVars == <<stdin, lines, flag, decoding, decoded, events, stdout, panics, cut>>
vars == <<caller, cancelled, heard, reply, chan, deferred, inflight, write,
          stdin, lines, flag, decoding, decoded, events, stdout, panics, cut, exposed>>

\* The n-th token of request r, and the terminal event that follows n of them.
Token(r, n)   == [req |-> r, terminal |-> FALSE, n |-> n]
Completion(r, n) == [req |-> r, terminal |-> TRUE, n |-> n]

Init ==
  /\ caller = [r \in Requests |-> "unsent"]
  /\ cancelled = {}
  /\ heard = [r \in Requests |-> <<>>]
  /\ reply = [r \in Requests |-> <<>>]
  /\ chan = <<>> /\ deferred = <<>> /\ inflight = None /\ write = "done"
  /\ stdin = <<>> /\ lines = <<>> /\ flag = FALSE
  /\ decoding = None /\ decoded = 0 /\ events = <<>> /\ stdout = <<>> /\ panics = 0 /\ cut = {}
  /\ exposed = {}

-----------------------------------------------------------------------------
(* Callers.                                                                *)

\* A caller's send().await waits for room in the channel.
Submit(r) ==
  /\ caller[r] = "unsent"
  /\ Len(chan) < ChannelCap
  /\ caller' = [caller EXCEPT ![r] = "listening"]
  /\ chan' = Append(chan, r)
  /\ UNCHANGED <<cancelled, heard, reply, exposed, deferred, inflight, write, workerVars>>

\* The requests the manager or its worker still holds.
Outstanding == {q \in Requests : q = inflight \/ q \in Range(chan) \cup Range(deferred)}

\* The caller takes an event. A token may be all it wants: it then posts a
\* cancel, which a full channel drops, and keeps listening for the end.
Listen(r) ==
  /\ caller[r] = "listening"
  /\ reply[r] # <<>>
  /\ reply' = [reply EXCEPT ![r] = Tail(@)]
  /\ heard' = [heard EXCEPT ![r] = Append(@, Head(reply[r]))]
  /\ \/ /\ Head(reply[r]).terminal
        /\ caller' = [caller EXCEPT ![r] = "ended"]
        /\ UNCHANGED <<cancelled, exposed, chan>>
     \/ /\ ~Head(reply[r]).terminal
        /\ UNCHANGED <<caller, cancelled, exposed, chan>>
     \/ /\ ~Head(reply[r]).terminal
        /\ r \notin cancelled
        /\ cancelled' = cancelled \cup {r}
        /\ exposed' = exposed \cup (Outstanding \ {r})
        /\ UNCHANGED caller
        /\ chan' = IF Len(chan) < ChannelCap THEN Append(chan, Cancel) ELSE chan
  /\ UNCHANGED <<deferred, inflight, write, workerVars>>

\* The caller drops its receiver: an embedding caller once it has its vectors,
\* any caller whose thread fails.
Drop(r) ==
  /\ caller[r] = "listening"
  /\ caller' = [caller EXCEPT ![r] = "dropped"]
  /\ reply' = [reply EXCEPT ![r] = <<>>]
  /\ UNCHANGED <<cancelled, heard, exposed, loopVars, workerVars>>

-----------------------------------------------------------------------------
(* The manager's loop.                                                     *)

\* deliver_cancel: the signal goes to the worker whatever it is serving.
DeliverCancel ==
  /\ stdin' = Append(stdin, Cancel)
  /\ UNCHANGED <<lines, flag, decoding, decoded, events, stdout, panics, cut>>

\* send_request takes the stdin lock and writes the request's line; the last
\* line on stdin is not whole before the write is done.
BeginWrite ==
  /\ write' = "begun"
  /\ stdin' = Append(stdin, inflight')
  /\ UNCHANGED <<lines, flag, decoding, decoded, events, stdout, panics, cut>>

\* Mutated: a cancel that finds no request is put back until there is one.
NextCommand_KeepsCancel ==
  /\ inflight = None
  /\ \/ /\ deferred # <<>>
        /\ inflight' = Head(deferred)
        /\ deferred' = Tail(deferred)
        /\ BeginWrite
        /\ UNCHANGED chan
     \/ /\ deferred = <<>>
        /\ chan # <<>>
        /\ Head(chan) # Cancel
        /\ inflight' = Head(chan)
        /\ chan' = Tail(chan)
        /\ BeginWrite
        /\ UNCHANGED deferred
     \/ /\ deferred = <<>>
        /\ chan # <<>>
        /\ Head(chan) = Cancel
        /\ chan' = Append(Tail(chan), Cancel)
        /\ UNCHANGED <<deferred, inflight, write, workerVars>>
  /\ UNCHANGED callerVars

\* Between requests: the next command, the deferred ones first.
NextCommand ==
  /\ inflight = None
  /\ \/ /\ deferred # <<>>
        /\ inflight' = Head(deferred)
        /\ deferred' = Tail(deferred)
        /\ BeginWrite
        /\ UNCHANGED chan
     \/ /\ deferred = <<>>
        /\ chan # <<>>
        /\ Head(chan) # Cancel
        /\ inflight' = Head(chan)
        /\ chan' = Tail(chan)
        /\ BeginWrite
        /\ UNCHANGED deferred
     \/ /\ deferred = <<>>
        /\ chan # <<>>
        /\ Head(chan) = Cancel
        /\ chan' = Tail(chan)
        /\ DeliverCancel
        /\ UNCHANGED <<deferred, inflight, write>>
  /\ UNCHANGED callerVars

\* The rest of the line is in the pipe: the lock is free and the line whole.
FinishWrite ==
  /\ write = "begun"
  /\ write' = "done"
  /\ UNCHANGED <<callerVars, chan, deferred, inflight, workerVars>>

\* During a request a cancel is delivered at once and all else held back. A
\* cancel that finds the line half written waits for the stdin lock; the write
\* that holds it is polled by nobody but this loop, which now waits for ever.
CommandInFlight ==
  /\ inflight # None
  /\ write # "stuck"
  /\ chan # <<>>
  /\ chan' = Tail(chan)
  /\ \/ /\ Head(chan) = Cancel /\ write = "done"
        /\ DeliverCancel
        /\ UNCHANGED <<deferred, write>>
     \/ /\ Head(chan) = Cancel /\ write = "begun"
        /\ write' = "stuck"
        /\ UNCHANGED <<deferred, workerVars>>
     \/ /\ Head(chan) # Cancel
        /\ deferred' = Append(deferred, Head(chan))
        /\ UNCHANGED <<write, workerVars>>
  /\ UNCHANGED <<inflight, callerVars>>

\* Mutated: a dropped receiver ends the request without draining its events.
ForwardEvent_NoDrain ==
  /\ inflight # None /\ write = "done"
  /\ stdout # <<>>
  /\ stdout' = Tail(stdout)
  /\ reply' = IF caller[inflight] = "listening"
              THEN [reply EXCEPT ![inflight] = Append(@, Head(stdout))] ELSE reply
  /\ inflight' = IF Head(stdout).terminal \/ caller[inflight] = "dropped" THEN None ELSE inflight
  /\ UNCHANGED <<caller, cancelled, heard, exposed, chan, deferred, write, stdin, lines, flag, decoding, decoded, events, panics, cut>>

\* send_request reads one event and forwards it, or discards it when the
\* receiver is gone; the terminal one frees the pipes.
ForwardEvent ==
  /\ inflight # None /\ write = "done"
  /\ stdout # <<>>
  /\ stdout' = Tail(stdout)
  /\ reply' = IF caller[inflight] = "listening"
              THEN [reply EXCEPT ![inflight] = Append(@, Head(stdout))] ELSE reply
  /\ inflight' = IF Head(stdout).terminal THEN None ELSE inflight
  /\ UNCHANGED <<caller, cancelled, heard, exposed, chan, deferred, write, stdin, lines, flag, decoding, decoded, events, panics, cut>>

-----------------------------------------------------------------------------
(* The worker process.                                                     *)

\* The stdin thread reads a whole line: a cancel raises the flag at once, a
\* request queues.
ReadLine ==
  /\ stdin # <<>>
  /\ write = "done" \/ Len(stdin) > 1
  /\ stdin' = Tail(stdin)
  /\ IF Head(stdin) = Cancel
       THEN flag' = TRUE /\ UNCHANGED lines
       ELSE lines' = Append(lines, Head(stdin)) /\ UNCHANGED flag
  /\ UNCHANGED <<callerVars, loopVars, decoding, decoded, events, stdout, panics, cut>>

\* Mutated: a cancel that came too late is kept for the next request.
Dispatch_KeepsFlag ==
  /\ decoding = None
  /\ lines # <<>>
  /\ decoding' = Head(lines)
  /\ lines' = Tail(lines)
  /\ decoded' = 0
  /\ UNCHANGED <<callerVars, loopVars, stdin, flag, events, stdout, panics, cut>>

\* The main loop takes a request and lowers the flag before serving it.
Dispatch ==
  /\ decoding = None
  /\ lines # <<>>
  /\ decoding' = Head(lines)
  /\ lines' = Tail(lines)
  /\ flag' = FALSE
  /\ decoded' = 0
  /\ UNCHANGED <<callerVars, loopVars, stdin, events, stdout, panics, cut>>

\* The decode emits a token, unless the flag tells it to stop.
Decode ==
  /\ decoding # None
  /\ decoded < MaxTokens
  /\ ~flag
  /\ decoded' = decoded + 1
  /\ events' = Append(events, Token(decoding, decoded'))
  /\ UNCHANGED <<callerVars, loopVars, stdin, lines, flag, decoding, stdout, panics, cut>>

\* Mutated: a cancelled decode ends without a terminal event.
Complete_SilentWhenCancelled ==
  /\ decoding # None
  /\ flag \/ decoded = MaxTokens
  /\ events' = IF flag THEN events ELSE Append(events, Completion(decoding, decoded))
  /\ cut' = IF decoded < MaxTokens THEN cut \cup {decoding} ELSE cut
  /\ decoding' = None
  /\ UNCHANGED <<callerVars, loopVars, stdin, lines, flag, decoded, stdout, panics>>

\* It ends on its own, or because the flag is up; the terminal event follows
\* the tokens either way.
Complete ==
  /\ decoding # None
  /\ flag \/ decoded = MaxTokens
  /\ events' = Append(events, Completion(decoding, decoded))
  /\ cut' = IF decoded < MaxTokens THEN cut \cup {decoding} ELSE cut
  /\ decoding' = None
  /\ UNCHANGED <<callerVars, loopVars, stdin, lines, flag, decoded, stdout, panics>>

\* The decode panics: main writes the error to stdout itself, ahead of what the
\* printer still holds.
DecodePanics ==
  /\ decoding # None
  /\ panics < MaxPanics
  /\ panics' = panics + 1
  /\ stdout' = Append(stdout, Completion(decoding, decoded))
  /\ decoding' = None
  /\ UNCHANGED <<callerVars, loopVars, stdin, lines, flag, decoded, events, cut>>

\* The printer task writes the next event.
WriteEvent ==
  /\ events # <<>>
  /\ stdout' = Append(stdout, Head(events))
  /\ events' = Tail(events)
  /\ UNCHANGED <<callerVars, loopVars, stdin, lines, flag, decoding, decoded, panics, cut>>

-----------------------------------------------------------------------------
Loop   == NextCommand \/ FinishWrite \/ CommandInFlight \/ ForwardEvent
Worker == ReadLine \/ Dispatch \/ Decode \/ Complete \/ DecodePanics \/ WriteEvent

Next ==
  \/ \E r \in Requests : Submit(r) \/ Listen(r) \/ Drop(r)
  \/ Loop
  \/ Worker

Spec == Init /\ [][Next]_vars

\* The loop, the worker's threads and a caller that waits on recv() all run.
\* biased select polls the request first, and commands arrive finitely often. A
\* write goes on while the loop polls it, as the stdin thread keeps reading.
FairSpec ==
  /\ Spec
  /\ WF_vars(NextCommand) /\ WF_vars(FinishWrite) /\ WF_vars(ForwardEvent)
  /\ WF_vars(ReadLine) /\ WF_vars(Dispatch) /\ WF_vars(Decode \/ Complete) /\ WF_vars(WriteEvent)
  /\ \A r \in Requests : WF_vars(Listen(r))

-----------------------------------------------------------------------------
\* What a caller has heard, and what waits for it, is its own stream: every
\* token once and in order, and nothing after the terminal event.
HearsItself(r) ==
  LET s == heard[r] \o reply[r]
  IN  \A i \in DOMAIN s :
        /\ s[i].req = r
        /\ s[i].terminal => i = Len(s) /\ s[i].n = i - 1
        /\ ~s[i].terminal => s[i].n = i

\* Nobody hears another request's events, whoever cancels, defers or drops its
\* receiver, as long as no decode has panicked (send_request).
OwnStream == panics = 0 => \A r \in Requests : HearsItself(r)

\* Between requests the pipe holds nothing but cancels: no event is left for
\* the next request to read as its own, no request is left undecoded
\* (send_request's "on return, the pipe is at a request boundary").
PipeAtBoundary ==
  panics = 0 /\ inflight = None =>
    /\ events = <<>> /\ stdout = <<>> /\ lines = <<>> /\ decoding = None
    /\ \A i \in DOMAIN stdin : stdin[i] = Cancel

\* process/mod.rs: "The next request must read its own reply, not the residue
\* of the first one". A decode that panics leaves such a residue.
NoResidue ==
  \A r \in Requests : \A e \in Range(heard[r] \o reply[r]) : e.req = r

\* worker/src/main.rs: "Any cancel that arrived before this request belongs to
\* the previous one; clear it so it cannot abort a fresh generation". Only a
\* request whose caller asked for it is cut short.
CutOnlyOnRequest == cut \subseteq cancelled

\* A cancel never reaches a request that is submitted after it: what is cut
\* short is its own caller's, or was waiting when another caller cancelled.
CutOnlyWhatWaited == cut \subseteq cancelled \cup exposed

\* The loop waits for itself over a stale cancel only, one that its caller
\* posted while the request now being written was still waiting: no caller can
\* bring it about for its own request, nor for one submitted later.
StuckByStaleCancel == write = "stuck" => inflight \in exposed

\* Every caller that still listens hears the end of its stream, unless the loop
\* comes to wait for itself.
EveryStreamEnds ==
  \A r \in Requests :
    caller[r] = "listening" ~> caller[r] \in {"ended", "dropped"} \/ write = "stuck"
=============================================================================
