------------------------------- MODULE Reader -------------------------------
(***************************************************************************)
(* The reads of one embedded RDC session: Reader.ReadSamples               *)
(* (internal/adapter/rdcsource/reader.go), called over and over by the     *)
(* single collection loop.                                                 *)
(*                                                                         *)
(* One goroutine per GPU walks the watched fields in registration order    *)
(* and sends each successful reading on a buffered channel; the caller     *)
(* joins the goroutines, closes the channel and drains it.  The context    *)
(* may be cancelled between any two of these steps.                        *)
(*                                                                         *)
(* Field identifiers are abstracted to their position ("slot") in          *)
(* Reader.fieldIDs, so that a field listed twice stays two slots.          *)
(***************************************************************************)
EXTENDS Naturals, Sequences, FiniteSets

CONSTANTS
    GPUs,        \* Reader.gpuIndexes: the GPUs selected for collection
    NumFields,   \* len(Reader.fieldIDs)
    Values,      \* numeric readings RDC may hold
    NonNumeric,  \* a cached value of type String or Blob
    NotFound,    \* RDC_ST_NOT_FOUND: RDC has not sampled the field yet
    Failed,      \* any other status that is not RDC_ST_OK
    Unread       \* no answer from RDC in this call of ReadSamples

ASSUME ReaderAssumption ==
    /\ IsFiniteSet(GPUs)
    /\ NumFields \in Nat
    /\ 0 \in Values
    /\ \A a \in {NonNumeric, NotFound, Failed, Unread} : a \notin Values
    /\ Failed \notin {NonNumeric, NotFound, Unread}
    /\ Unread \notin {NonNumeric, NotFound}

VARIABLES
    ctx,      \* the context handed to ReadSamples: "live" or "cancelled"
    caller,   \* the goroutine inside ReadSamples
    worker,   \* worker[g]: where the goroutine of GPU g is
    pos,      \* pos[g]: the slot that goroutine is at
    answer,   \* answer[g][k]: what RDC answered for slot k in this call
    chan,     \* the buffered channel "values"
    closed,   \* close(values) has run
    samples,  \* the slice being returned
    late      \* late[g]: answers the goroutine of g took after cancellation
              \* (history variable, read by no action)

vars == <<ctx, caller, worker, pos, answer, chan, closed, samples, late>>

Slots    == 1..NumFields
Answers  == Values \cup {NonNumeric, NotFound, Failed}
Readings == [gpu : GPUs, slot : Slots, value : Values]

\* make(chan reading, len(gpuIndexes) * len(fieldIDs))
CapacityPerField == NumFields
Capacity == Cardinality(GPUs) * NumFields

\* GetLatestFieldValue followed by FloatValue, whose numeric flag ReadSamples
\* ignores: what is not sampled yet and what is not a number both read as 0.
FloatValueRaw(a) == a
FloatValue(a) == IF a \in Values THEN a ELSE 0

Init ==
    /\ ctx     = "live"
    /\ caller  = "idle"
    /\ worker  = [g \in GPUs |-> "done"]
    /\ pos     = [g \in GPUs |-> 1]
    /\ answer  = [g \in GPUs |-> [k \in Slots |-> Unread]]
    /\ chan    = <<>>
    /\ closed  = FALSE
    /\ samples = <<>>
    /\ late    = [g \in GPUs |-> 0]

-----------------------------------------------------------------------------
(* The caller                                                              *)

\* A call that goes straight to the fan-out.
ReadSamplesUnchecked ==
    /\ caller \in {"idle", "returned"}
    /\ caller'  = "joining"
    /\ worker'  = [g \in GPUs |-> "check"]
    /\ pos'     = [g \in GPUs |-> 1]
    /\ answer'  = [g \in GPUs |-> [k \in Slots |-> Unread]]
    /\ chan'    = <<>>
    /\ closed'  = FALSE
    /\ samples' = <<>>
    /\ UNCHANGED <<ctx, late>>

\* ctx.Err() is checked once on entry; the channel is made and one goroutine
\* per GPU started.
ReadSamples ==
    /\ caller \in {"idle", "returned"}
    /\ IF ctx = "cancelled"
       THEN /\ caller' = "refused"
            /\ UNCHANGED <<worker, pos, answer, chan, closed, samples>>
       ELSE /\ caller'  = "joining"
            /\ worker'  = [g \in GPUs |-> "check"]
            /\ pos'     = [g \in GPUs |-> 1]
            /\ answer'  = [g \in GPUs |-> [k \in Slots |-> Unread]]
            /\ chan'    = <<>>
            /\ closed'  = FALSE
            /\ samples' = <<>>
    /\ UNCHANGED <<ctx, late>>

\* A join that gives up as soon as one goroutine is done.
JoinFirst ==
    /\ caller = "joining"
    /\ \E g \in GPUs : worker[g] = "done"
    /\ caller' = "draining"
    /\ closed' = TRUE
    /\ UNCHANGED <<ctx, worker, pos, answer, chan, samples, late>>

\* wg.Wait() returns once every goroutine has run its deferred wg.Done().
Join ==
    /\ caller = "joining"
    /\ \A g \in GPUs : worker[g] = "done"
    /\ caller' = "draining"
    /\ closed' = TRUE
    /\ UNCHANGED <<ctx, worker, pos, answer, chan, samples, late>>

\* The slice is filled from the front.
DrainReversed ==
    /\ caller = "draining"
    /\ IF chan # <<>>
       THEN /\ samples' = <<Head(chan)>> \o samples
            /\ chan'    = Tail(chan)
            /\ UNCHANGED caller
       ELSE /\ caller' = "returned"
            /\ UNCHANGED <<samples, chan>>
    /\ UNCHANGED <<ctx, worker, pos, answer, closed, late>>

\* for v := range values { samples = append(samples, ...) }
Drain ==
    /\ caller = "draining"
    /\ IF chan # <<>>
       THEN /\ samples' = Append(samples, Head(chan))
            /\ chan'    = Tail(chan)
            /\ UNCHANGED caller
       ELSE /\ caller' = "returned"
            /\ UNCHANGED <<samples, chan>>
    /\ UNCHANGED <<ctx, worker, pos, answer, closed, late>>

-----------------------------------------------------------------------------
(* The goroutine of GPU g                                                  *)

\* The goroutine looks at the context only before its first field.
WorkerCheckOnce(g) ==
    /\ worker[g] = "check"
    /\ worker' = [worker EXCEPT ![g] =
                    IF pos[g] > NumFields \/ (ctx = "cancelled" /\ pos[g] = 1)
                    THEN "done" ELSE "call"]
    /\ UNCHANGED <<ctx, caller, pos, answer, chan, closed, samples, late>>

\* The head of the loop: no field left, or ctx.Err() # nil, ends it.
WorkerCheck(g) ==
    /\ worker[g] = "check"
    /\ worker' = [worker EXCEPT ![g] =
                    IF pos[g] > NumFields \/ ctx = "cancelled"
                    THEN "done" ELSE "call"]
    /\ UNCHANGED <<ctx, caller, pos, answer, chan, closed, samples, late>>

\* A failed read ends the goroutine.
WorkerReturnGivesUp(g, a) ==
    /\ worker[g] = "call"
    /\ answer' = [answer EXCEPT ![g][pos[g]] = a]
    /\ late' = [late EXCEPT ![g] = IF ctx = "cancelled" THEN @ + 1 ELSE @]
    /\ worker' = [worker EXCEPT ![g] = IF a = Failed THEN "done" ELSE "send"]
    /\ UNCHANGED <<ctx, caller, pos, chan, closed, samples>>

\* A failed read is retried.
WorkerReturnRetries(g, a) ==
    /\ worker[g] = "call"
    /\ answer' = [answer EXCEPT ![g][pos[g]] = a]
    /\ late' = [late EXCEPT ![g] = IF ctx = "cancelled" THEN @ + 1 ELSE @]
    /\ worker' = [worker EXCEPT ![g] = IF a = Failed THEN "check" ELSE "send"]
    /\ UNCHANGED <<ctx, caller, pos, chan, closed, samples>>

\* GetLatestFieldValue returns a; an error skips the slot, anything else is
\* converted and about to be sent.
WorkerReturn(g, a) ==
    /\ worker[g] = "call"
    /\ answer' = [answer EXCEPT ![g][pos[g]] = a]
    /\ late' = [late EXCEPT ![g] = IF ctx = "cancelled" THEN @ + 1 ELSE @]
    /\ IF a = Failed
       THEN /\ worker' = [worker EXCEPT ![g] = "check"]
            /\ pos'    = [pos EXCEPT ![g] = @ + 1]
       ELSE /\ worker' = [worker EXCEPT ![g] = "send"]
            /\ UNCHANGED pos
    /\ UNCHANGED <<ctx, caller, chan, closed, samples>>

\* values <- reading{...}: blocks while the buffer is full.
WorkerSend(g) ==
    /\ worker[g] = "send"
    /\ Len(chan) < Capacity
    /\ chan' = Append(chan, [gpu   |-> g,
                             slot  |-> pos[g],
                             value |-> FloatValue(answer[g][pos[g]])])
    /\ worker' = [worker EXCEPT ![g] = "check"]
    /\ pos'    = [pos EXCEPT ![g] = @ + 1]
    /\ UNCHANGED <<ctx, caller, answer, closed, samples, late>>

WorkerStep(g) ==
    \/ WorkerCheck(g)
    \/ \E a \in Answers : WorkerReturn(g, a)
    \/ WorkerSend(g)

-----------------------------------------------------------------------------
\* SIGINT or SIGTERM cancels the context at any moment.
Cancel ==
    /\ ctx = "live"
    /\ ctx' = "cancelled"
    /\ UNCHANGED <<caller, worker, pos, answer, chan, closed, samples, late>>

\* After a refused call the collection loop sees ctx.Done() and ends.
Ended ==
    /\ caller = "refused"
    /\ UNCHANGED vars

CallerStep == ReadSamples \/ Join \/ Drain

Next ==
    \/ CallerStep
    \/ \E g \in GPUs : WorkerStep(g)
    \/ Cancel
    \/ Ended

\* The Go scheduler runs every goroutine that can take a step, and an RDC call
\* returns: it answers from the cache of the embedded session.
Fairness ==
    /\ WF_vars(CallerStep)
    /\ \A g \in GPUs : WF_vars(WorkerStep(g))

Spec == Init /\ [][Next]_vars /\ Fairness

-----------------------------------------------------------------------------
(* Properties                                                              *)

CallerStates == {"idle", "joining", "draining", "returned", "refused"}
WorkerStates == {"check", "call", "send", "done"}

\* Every variable stays in its type.
TypeOK ==
    /\ ctx \in {"live", "cancelled"}
    /\ caller \in CallerStates
    /\ worker \in [GPUs -> WorkerStates]
    /\ pos \in [GPUs -> 1..(NumFields + 1)]
    /\ answer \in [GPUs -> [Slots -> Answers \cup {Unread}]]
    /\ chan \in Seq(Readings)
    /\ closed \in BOOLEAN
    /\ samples \in Seq(Readings)
    /\ late \in [GPUs -> Nat]

\* "The workers never block" (reader.go:112): whoever is about to send finds
\* room in the channel, in every interleaving and whatever RDC answers.
NeverBlocks ==
    \A g \in GPUs : worker[g] = "send" => Len(chan) < Capacity

\* "All goroutines are joined before the channel is drained" (reader.go:113):
\* once the channel is closed no goroutine can send on it, which would panic,
\* or call into the RDC session behind the caller's back.
JoinedBeforeDrained ==
    closed => \A g \in GPUs : worker[g] = "done"

Collected == {samples[i] : i \in DOMAIN samples}

Answered == {p \in GPUs \X Slots : answer[p[1]][p[2]] \notin {Failed, Unread}}

\* What is returned is exactly what RDC answered: every slot of every GPU that
\* did not fail is there once, with its own value, and nothing else is; only a
\* cancelled context may leave slots unread.
ReturnsEveryAnswer ==
    caller = "returned" =>
        /\ Collected = {[gpu   |-> p[1],
                         slot  |-> p[2],
                         value |-> FloatValue(answer[p[1]][p[2]])] : p \in Answered}
        /\ \A i, j \in DOMAIN samples :
               /\ samples[i].gpu = samples[j].gpu
               /\ samples[i].slot = samples[j].slot
               => i = j
        /\ ctx = "live" =>
               \A g \in GPUs, k \in Slots : answer[g][k] # Unread

\* The samples of one GPU come back in field order.  The sink keeps the last
\* value it is given, so for a field listed twice this decides which one stays.
FieldOrderKept ==
    \A i, j \in DOMAIN samples :
        i < j /\ samples[i].gpu = samples[j].gpu =>
            samples[i].slot < samples[j].slot

\* Cancellation is honoured between fields: after it, each goroutine takes at
\* most the one answer of the call it had already decided to make.
AtMostOneLateAnswer == \A g \in GPUs : late[g] <= 1

-----------------------------------------------------------------------------
(* The inductive invariant behind the safety properties above.             *)

\* What one call has received so far: already drained, then still buffered.
got == samples \o chan

\* Goroutines run only inside a call, and the call drains only after them.
CallInv ==
    /\ \A g \in GPUs : worker[g] # "done" => caller = "joining"
    /\ caller = "joining" => ~closed /\ samples = <<>>
    /\ caller = "returned" => chan = <<>>
    /\ caller = "refused" => ctx = "cancelled"

\* The slots a goroutine has an answer for are those before its position, and
\* the one it is about to send; only cancellation ends it early.
ProgressInv ==
    \A g \in GPUs :
        /\ worker[g] \in {"call", "send"} => pos[g] <= NumFields
        /\ \A k \in Slots :
               answer[g][k] # Unread <=>
                   (k < pos[g] \/ (k = pos[g] /\ worker[g] = "send"))
        /\ worker[g] = "send" => answer[g][pos[g]] # Failed
        /\ worker[g] = "done" /\ ctx = "live" /\ caller # "idle"
               => pos[g] = NumFields + 1

\* Each reading received is the answer to a slot its goroutine has passed.
OriginInv ==
    \A i \in 1..Len(got) :
        /\ got[i].slot < pos[got[i].gpu]
        /\ answer[got[i].gpu][got[i].slot] # Failed
        /\ got[i].value = FloatValue(answer[got[i].gpu][got[i].slot])

\* The readings of one GPU are received in slot order.
OrderInv ==
    \A i, j \in 1..Len(got) :
        i < j /\ got[i].gpu = got[j].gpu => got[i].slot < got[j].slot

\* No answer is lost.
NothingLostInv ==
    \A g \in GPUs, k \in Slots :
        k < pos[g] /\ answer[g][k] # Failed =>
            \E i \in 1..Len(got) : got[i].gpu = g /\ got[i].slot = k

LateInv ==
    \A g \in GPUs :
        /\ late[g] <= 1
        /\ late[g] > 0 => ctx = "cancelled" /\ worker[g] # "call"

IInv ==
    /\ TypeOK
    /\ CallInv
    /\ ProgressInv
    /\ OriginInv
    /\ OrderInv
    /\ NothingLostInv
    /\ LateInv

-----------------------------------------------------------------------------
(* Liveness                                                                *)

\* Every call of ReadSamples that starts also returns, whatever fails.
CallReturns == caller = "joining" ~> caller = "returned"

\* A cancelled context stops the reads for good: the fan-out under way is joined
\* and every later call is refused on entry.
CancelStopsReading == ctx = "cancelled" ~> [](caller = "refused")
=============================================================================
