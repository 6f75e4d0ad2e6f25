--------------------------- MODULE MergeProducer ---------------------------
(***************************************************************************)
(* The producers of the k-way merges of one process: merge/producer_iter.rs *)
(* and from_readers.rs (one thread per input SSTable that sends its rows   *)
(* over a bounded channel and then exactly one terminator), RunReader and  *)
(* the refill of the merge heap in merge/mod.rs and streaming.rs, the      *)
(* egress budget that sizes the channels, and the three process-wide       *)
(* counters.  Rows of an input are numbered; which head the heap yields    *)
(* first depends on keys, so the model takes any.                          *)
(***************************************************************************)
EXTENDS Integers, Sequences, FiniteSets

CONSTANTS
    Merges,         \* the merges started during the behaviour
    Runs,           \* all their inputs, numbered: a merge opens its own in order
    Owner,          \* the merge of each input
    Rows,           \* the number of rows of each input
    Budget, MinCap, MaxCap,  \* CQLITE_EGRESS_ROW_BUDGET, CQLITE_EGRESS_MIN_CAP, 256
    BufferRows      \* bound: how many rows fill the 8 KB peek buffer at most

ASSUME MergeProducerAssumption ==
    /\ Runs \subseteq Nat /\ IsFiniteSet(Runs) /\ IsFiniteSet(Merges)
    /\ Owner \in [Runs -> Merges]
    /\ Rows \in [Runs -> Nat]
    /\ Budget \in Nat /\ MinCap \in Nat \ {0} /\ MaxCap \in Nat
    /\ MinCap <= MaxCap /\ MinCap <= Budget
    /\ BufferRows \in Nat \ {0}

VARIABLES
    active,     \* egress_budget::ACTIVE
    live,       \* producer_gauge::LIVE
    depth,      \* channel_depth::DEPTH
    phase,      \* of a merge: see Phases
    cap,        \* of a merge: the capacity all its channels share
    cancelled,  \* of a merge: its ScanCancel token, which never resets
    todo,       \* of a merge: the inputs still to open, to refill or to drop
    refilling,  \* of a merge: inside RunReader::refill_buffer
    erred,      \* of a merge: an error was returned to its caller
    pc,         \* of a producer: see ProducerPcs
    pos,        \* of a producer: rows forwarded so far
    verdict,    \* of a producer: the terminator it is about to send
    chan,       \* the channel of an input
    rx,         \* its receiver exists
    sent,       \* sent_count
    received,   \* received_count
    state,      \* RunState
    buffer,     \* RunReader::buffer
    exhausted,  \* RunReader::exhausted
    head,       \* the input's row in the merge heap, 0 if it has none
    held,       \* the row pull_one popped and holds while it refills, or 0
    out         \* the rows handed to the reconciliation

counters == <<active, live, depth>>
mergeVars == <<phase, cap, cancelled, todo, refilling, erred>>
producerVars == <<pc, pos, verdict, chan, sent>>
adapterVars == <<rx, received, state>>
readerVars == <<buffer, exhausted, head, held, out>>
vars == <<counters, mergeVars, producerVars, adapterVars, readerVars>>

Phases == {"idle", "open", "run", "complete", "drop", "gone"}
ProducerPcs == {"unborn", "walk", "send", "count", "term", "exit", "dead"}
Item(n) == [tag |-> "Item", row |-> n]
Terminator(v) == [tag |-> v, row |-> 0]
MergeMsg == [tag : {"Item"}, row : Nat \ {0}] \cup [tag : {"Done", "Failed"}, row : {0}]
RunState == {"Streaming", "Finished", "Failed", "Died"}

RunsOf(m) == {r \in Runs : Owner[r] = m}
First(r, S) == r \in S /\ \A q \in S : r <= q

Init ==
    /\ active = 0 /\ live = 0 /\ depth = 0
    /\ phase = [m \in Merges |-> "idle"]
    /\ cap = [m \in Merges |-> 0]
    /\ cancelled = [m \in Merges |-> FALSE]
    /\ todo = [m \in Merges |-> {}]
    /\ refilling = [m \in Merges |-> FALSE]
    /\ erred = [m \in Merges |-> FALSE]
    /\ pc = [r \in Runs |-> "unborn"]
    /\ pos = [r \in Runs |-> 0]
    /\ verdict = [r \in Runs |-> "Done"]
    /\ chan = [r \in Runs |-> <<>>]
    /\ rx = [r \in Runs |-> FALSE]
    /\ sent = [r \in Runs |-> 0]
    /\ received = [r \in Runs |-> 0]
    /\ state = [r \in Runs |-> "Streaming"]
    /\ buffer = [r \in Runs |-> <<>>]
    /\ exhausted = [r \in Runs |-> FALSE]
    /\ head = [r \in Runs |-> 0]
    /\ held = [r \in Runs |-> 0]
    /\ out = [r \in Runs |-> {}]

(***************************************************************************)
(* KWayMerger::new_with_gc_and_registry_cancellable: register once, then   *)
(* open the inputs in order.                                               *)
(***************************************************************************)
clamp(n, low, high) == IF n < low THEN low ELSE IF n > high THEN high ELSE n

capacity_from(n) == clamp(Budget \div (IF n = 0 THEN 1 ELSE n), MinCap, MaxCap)

begin_merge(m) ==
    /\ phase[m] = "idle"
    /\ RunsOf(m) # {}
    /\ active' = active + 1
    /\ cap' = [cap EXCEPT ![m] = capacity_from(active')]
    /\ phase' = [phase EXCEPT ![m] = "open"]
    /\ todo' = [todo EXCEPT ![m] = RunsOf(m)]
    /\ UNCHANGED <<live, depth, cancelled, refilling, erred, producerVars,
                   adapterVars, readerVars>>

open(m, r) ==
    /\ phase[m] = "open" /\ First(r, todo[m])
    /\ live' = live + 1
    /\ pc' = [pc EXCEPT ![r] = "walk"]
    /\ rx' = [rx EXCEPT ![r] = TRUE]
    /\ todo' = [todo EXCEPT ![m] = @ \ {r}]
    /\ phase' = [phase EXCEPT ![m] = IF todo'[m] = {} THEN "run" ELSE @]
    /\ UNCHANGED <<active, depth, cap, cancelled, refilling, erred, pos, verdict,
                   chan, sent, received, state, readerVars>>

(* The gauge is rolled back although it is raised only behind the spawn.    *)
open_spawn_fails_uncounted(m, r) ==
    /\ phase[m] = "open" /\ First(r, todo[m])
    /\ live' = live - 1
    /\ phase' = [phase EXCEPT ![m] = "drop"]
    /\ todo' = [todo EXCEPT ![m] = RunsOf(m) \ @]
    /\ erred' = [erred EXCEPT ![m] = TRUE]
    /\ UNCHANGED <<active, depth, cap, cancelled, refilling, producerVars,
                   adapterVars, readerVars>>

(* The OS refuses the thread: the counter is rolled back and the inputs     *)
(* opened so far are dropped.                                               *)
open_spawn_fails(m, r) ==
    /\ phase[m] = "open" /\ First(r, todo[m])
    /\ phase' = [phase EXCEPT ![m] = "drop"]
    /\ todo' = [todo EXCEPT ![m] = RunsOf(m) \ @]
    /\ erred' = [erred EXCEPT ![m] = TRUE]
    /\ UNCHANGED <<counters, cap, cancelled, refilling, producerVars,
                   adapterVars, readerVars>>

(***************************************************************************)
(* The producer thread.                                                    *)
(***************************************************************************)
HasRoom(r) == rx[r] /\ Len(chan[r]) < cap[Owner[r]]

(* The scan polls the token and decodes a row; forward_row then sends it,    *)
(* blocking, and updates the two counters.                                  *)
decode_row(r) ==
    /\ pc[r] = "walk" /\ pos[r] < Rows[r]
    /\ pc' = [pc EXCEPT ![r] = "send"]
    /\ UNCHANGED <<counters, mergeVars, pos, verdict, chan, sent, adapterVars,
                   readerVars>>

forward_row(r) ==
    /\ pc[r] = "send" /\ HasRoom(r)
    /\ chan' = [chan EXCEPT ![r] = Append(@, Item(pos[r] + 1))]
    /\ pos' = [pos EXCEPT ![r] = @ + 1]
    /\ pc' = [pc EXCEPT ![r] = "count"]
    /\ UNCHANGED <<counters, mergeVars, verdict, sent, adapterVars, readerVars>>

count_sent(r) ==
    /\ pc[r] = "count"
    /\ depth' = depth + 1
    /\ sent' = [sent EXCEPT ![r] = @ + 1]
    /\ pc' = [pc EXCEPT ![r] = "walk"]
    /\ UNCHANGED <<active, live, mergeVars, pos, verdict, chan, adapterVars,
                   readerVars>>

(* The walk ends: every row was forwarded, or the send fails because the    *)
(* receiver is gone (ControlFlow::Break).  Both are Ok.                     *)
walk_ends(r) ==
    /\ \/ pc[r] = "walk" /\ pos[r] = Rows[r]
       \/ pc[r] = "send" /\ ~rx[r]
    /\ verdict' = [verdict EXCEPT ![r] = "Done"]
    /\ pc' = [pc EXCEPT ![r] = "term"]
    /\ UNCHANGED <<counters, mergeVars, pos, chan, sent, adapterVars, readerVars>>

(* The scan sees the cancelled token.                                       *)
walk_cancelled(r) ==
    /\ pc[r] = "walk" /\ cancelled[Owner[r]]
    /\ verdict' = [verdict EXCEPT ![r] = "Failed"]
    /\ pc' = [pc EXCEPT ![r] = "term"]
    /\ UNCHANGED <<counters, mergeVars, pos, chan, sent, adapterVars, readerVars>>

(* The reader cannot be opened, a block or a row does not decode, or the    *)
(* walk panics inside catch_unwind.                                         *)
walk_fails(r) ==
    /\ pc[r] = "walk"
    /\ verdict' = [verdict EXCEPT ![r] = "Failed"]
    /\ pc' = [pc EXCEPT ![r] = "term"]
    /\ UNCHANGED <<counters, mergeVars, pos, chan, sent, adapterVars, readerVars>>

send_terminator(r) ==
    /\ pc[r] = "term"
    /\ \/ HasRoom(r) /\ chan' = [chan EXCEPT ![r] = Append(@, Terminator(verdict[r]))]
       \/ ~rx[r] /\ UNCHANGED chan
    /\ pc' = [pc EXCEPT ![r] = "exit"]
    /\ UNCHANGED <<counters, mergeVars, pos, verdict, sent, adapterVars, readerVars>>

(* A panic after catch_unwind returned: the thread dies without a           *)
(* terminator and its sender is dropped.                                    *)
die_silently(r) ==
    /\ pc[r] = "term"
    /\ pc' = [pc EXCEPT ![r] = "exit"]
    /\ UNCHANGED <<counters, mergeVars, pos, verdict, chan, sent, adapterVars,
                   readerVars>>

(* ProducerThreadGuard is dropped last.                                     *)
thread_exits(r) ==
    /\ pc[r] = "exit"
    /\ live' = live - 1
    /\ pc' = [pc EXCEPT ![r] = "dead"]
    /\ UNCHANGED <<active, depth, mergeVars, pos, verdict, chan, sent,
                   adapterVars, readerVars>>

Disconnected_sender_kept(r) == FALSE

Disconnected(r) == chan[r] = <<>> /\ pc[r] \in {"exit", "dead"}

(***************************************************************************)
(* The consumer: one call of step_streaming (or step) at a time.  With a   *)
(* row in the heap it pops one and refills from that input; with an empty  *)
(* heap it asks every input again and reports Complete if none has a row.  *)
(***************************************************************************)
Idle(m) == phase[m] = "run" /\ todo[m] = {}

pull_one(m, r) ==
    /\ Idle(m) /\ Owner[r] = m /\ head[r] # 0
    /\ held' = [held EXCEPT ![r] = head[r]]
    /\ head' = [head EXCEPT ![r] = 0]
    /\ todo' = [todo EXCEPT ![m] = {r}]
    /\ UNCHANGED <<counters, phase, cap, cancelled, refilling, erred,
                   producerVars, adapterVars, buffer, exhausted, out>>

initialize_heap(m) ==
    /\ Idle(m) /\ \A r \in RunsOf(m) : head[r] = 0
    /\ todo' = [todo EXCEPT ![m] = RunsOf(m)]
    /\ UNCHANGED <<counters, phase, cap, cancelled, refilling, erred,
                   producerVars, adapterVars, readerVars>>

Refills(m, r) == phase[m] = "run" /\ First(r, todo[m])

(* refill_heap(r) ends well with the row h, or with none (0).  pull_one     *)
(* then hands on the row it holds; initialize_heap finds the merge          *)
(* complete when no input has a row.                                        *)
Refilled(m, r, h) ==
    /\ head' = [head EXCEPT ![r] = h]
    /\ out' = [out EXCEPT ![r] = @ \cup ({held[r]} \ {0})]
    /\ held' = [held EXCEPT ![r] = 0]
    /\ refilling' = [refilling EXCEPT ![m] = FALSE]
    /\ todo' = [todo EXCEPT ![m] = @ \ {r}]
    /\ phase' = [phase EXCEPT ![m] =
                    IF /\ todo[m] = {r} /\ held[r] = 0 /\ h = 0
                       /\ \A q \in RunsOf(m) \ {r} : head[q] = 0
                    THEN "complete" ELSE @]
    /\ UNCHANGED erred

(* refill_heap(r) fails: the rest of the call is abandoned, and the row     *)
(* that pull_one holds with it.                                             *)
RefillFails(m, r) ==
    /\ held' = [held EXCEPT ![r] = 0]
    /\ refilling' = [refilling EXCEPT ![m] = FALSE]
    /\ todo' = [todo EXCEPT ![m] = {}]
    /\ erred' = [erred EXCEPT ![m] = TRUE]
    /\ UNCHANGED <<phase, head, out>>

advance_buffered(m, r) ==
    /\ Refills(m, r) /\ ~refilling[m] /\ buffer[r] # <<>>
    /\ buffer' = [buffer EXCEPT ![r] = Tail(@)]
    /\ Refilled(m, r, Head(buffer[r]))
    /\ UNCHANGED <<counters, cap, cancelled, producerVars, adapterVars, exhausted>>

advance_exhausted(m, r) ==
    /\ Refills(m, r) /\ ~refilling[m] /\ buffer[r] = <<>> /\ exhausted[r]
    /\ Refilled(m, r, 0)
    /\ UNCHANGED <<counters, cap, cancelled, producerVars, adapterVars, buffer,
                   exhausted>>

(* refill_buffer asks the adapter for another row.                          *)
Asks(m, r) ==
    /\ Refills(m, r)
    /\ refilling[m] \/ (buffer[r] = <<>> /\ ~exhausted[r])

(* SSTableRowIteratorAdapter::next may look at the channel: the run has no  *)
(* verdict yet and the token, checked first, is not cancelled.              *)
Polls(m, r) == Asks(m, r) /\ state[r] = "Streaming" /\ ~cancelled[m]

next_item(m, r) ==
    /\ Polls(m, r) /\ chan[r] # <<>> /\ Head(chan[r]).tag = "Item"
    /\ chan' = [chan EXCEPT ![r] = Tail(@)]
    /\ depth' = depth - 1
    /\ received' = [received EXCEPT ![r] = @ + 1]
    /\ LET full == Append(buffer[r], Head(chan[r]).row)
       IN  \/ /\ Len(full) < BufferRows       \* the loop asks for more
              /\ buffer' = [buffer EXCEPT ![r] = full]
              /\ refilling' = [refilling EXCEPT ![m] = TRUE]
              /\ UNCHANGED <<phase, todo, erred, head, held, out>>
           \/ /\ buffer' = [buffer EXCEPT ![r] = Tail(full)]
              /\ Refilled(m, r, Head(full))
    /\ UNCHANGED <<active, live, cap, cancelled, pc, pos, verdict, sent, rx,
                   state, exhausted>>

(* None: the run is exhausted, and advance pops what the refill buffered.   *)
EndsRun(m, r) ==
    /\ exhausted' = [exhausted EXCEPT ![r] = TRUE]
    /\ \/ /\ buffer[r] = <<>>
          /\ Refilled(m, r, 0)
          /\ UNCHANGED buffer
       \/ /\ buffer[r] # <<>>
          /\ buffer' = [buffer EXCEPT ![r] = Tail(@)]
          /\ Refilled(m, r, Head(buffer[r]))

next_done(m, r) ==
    /\ Polls(m, r) /\ chan[r] # <<>> /\ Head(chan[r]).tag = "Done"
    /\ chan' = [chan EXCEPT ![r] = Tail(@)]
    /\ state' = [state EXCEPT ![r] = "Finished"]
    /\ EndsRun(m, r)
    /\ UNCHANGED <<counters, cap, cancelled, pc, pos, verdict, sent, rx, received>>

next_failed(m, r) ==
    /\ Polls(m, r) /\ chan[r] # <<>> /\ Head(chan[r]).tag = "Failed"
    /\ chan' = [chan EXCEPT ![r] = Tail(@)]
    /\ state' = [state EXCEPT ![r] = "Failed"]
    /\ RefillFails(m, r)
    /\ UNCHANGED <<counters, cap, cancelled, pc, pos, verdict, sent, rx, received,
                   buffer, exhausted>>

next_disconnected_is_end(m, r) ==
    /\ Polls(m, r) /\ Disconnected(r)
    /\ state' = [state EXCEPT ![r] = "Finished"]
    /\ EndsRun(m, r)
    /\ UNCHANGED <<counters, cap, cancelled, producerVars, rx, received>>

next_disconnected(m, r) ==
    /\ Polls(m, r) /\ Disconnected(r)
    /\ state' = [state EXCEPT ![r] = "Died"]
    /\ RefillFails(m, r)
    /\ UNCHANGED <<counters, cap, cancelled, producerVars, rx, received, buffer,
                   exhausted>>

(* A repeated poll: a verdict is sticky, and a cancelled token answers      *)
(* Cancelled for a run that has none.                                       *)
next_again(m, r) ==
    /\ Asks(m, r)
    /\ \/ /\ state[r] = "Finished"
          /\ EndsRun(m, r)
       \/ /\ state[r] \in {"Failed", "Died"} \/ (state[r] = "Streaming" /\ cancelled[m])
          /\ RefillFails(m, r)
          /\ UNCHANGED <<buffer, exhausted>>
    /\ UNCHANGED <<counters, cap, cancelled, producerVars, adapterVars>>

(* The owner of the token (a Flight request that was dropped) cancels.      *)
cancel(m) ==
    /\ phase[m] \in {"open", "run"} /\ ~cancelled[m]
    /\ cancelled' = [cancelled EXCEPT ![m] = TRUE]
    /\ UNCHANGED <<counters, phase, cap, todo, refilling, erred, producerVars,
                   adapterVars, readerVars>>

(***************************************************************************)
(* Drop of the merger: its adapters one after the other, then the egress   *)
(* slot.  The caller may drop it between two calls, also before the end.   *)
(***************************************************************************)
drop_merger(m) ==
    /\ Idle(m) \/ phase[m] = "complete"
    /\ phase' = [phase EXCEPT ![m] = "drop"]
    /\ todo' = [todo EXCEPT ![m] = RunsOf(m)]
    /\ UNCHANGED <<counters, cap, cancelled, refilling, erred, producerVars,
                   adapterVars, readerVars>>

drop_receiver_once_dead(m, r) ==
    /\ phase[m] = "drop" /\ First(r, todo[m]) /\ rx[r]
    /\ cancelled' = [cancelled EXCEPT ![m] = TRUE]
    /\ rx' = [rx EXCEPT ![r] = pc[r] # "dead"]
    /\ chan' = IF pc[r] = "dead" THEN [chan EXCEPT ![r] = <<>>] ELSE chan
    /\ UNCHANGED <<counters, phase, cap, todo, refilling, erred, pc, pos, verdict,
                   sent, received, state, readerVars>>

(* Drop, steps 1 and 2: cancel the token, then close the channel.           *)
drop_receiver(m, r) ==
    /\ phase[m] = "drop" /\ First(r, todo[m]) /\ rx[r]
    /\ cancelled' = [cancelled EXCEPT ![m] = TRUE]
    /\ rx' = [rx EXCEPT ![r] = FALSE]
    /\ chan' = [chan EXCEPT ![r] = <<>>]
    /\ UNCHANGED <<counters, phase, cap, todo, refilling, erred, pc, pos, verdict,
                   sent, received, state, readerVars>>

reconcile_residual(n) == IF n > 0 THEN n ELSE 0

join_producer_detached(m, r) ==
    /\ phase[m] = "drop" /\ First(r, todo[m]) /\ ~rx[r]
    /\ depth' = depth - reconcile_residual(sent[r] - received[r])
    /\ todo' = [todo EXCEPT ![m] = @ \ {r}]
    /\ UNCHANGED <<active, live, phase, cap, cancelled, refilling, erred,
                   producerVars, adapterVars, readerVars>>

(* Steps 3 and 4: join the producer, then settle its share of the gauge.    *)
join_producer(m, r) ==
    /\ phase[m] = "drop" /\ First(r, todo[m]) /\ ~rx[r]
    /\ pc[r] = "dead"
    /\ depth' = depth - reconcile_residual(sent[r] - received[r])
    /\ todo' = [todo EXCEPT ![m] = @ \ {r}]
    /\ UNCHANGED <<active, live, phase, cap, cancelled, refilling, erred,
                   producerVars, adapterVars, readerVars>>

drop_egress_slot_leaked(m) ==
    /\ phase[m] = "drop" /\ todo[m] = {}
    /\ phase' = [phase EXCEPT ![m] = "gone"]
    /\ active' = IF erred[m] THEN active ELSE active - 1
    /\ UNCHANGED <<live, depth, cap, cancelled, todo, refilling, erred,
                   producerVars, adapterVars, readerVars>>

drop_egress_slot(m) ==
    /\ phase[m] = "drop" /\ todo[m] = {}
    /\ active' = active - 1
    /\ phase' = [phase EXCEPT ![m] = "gone"]
    /\ UNCHANGED <<live, depth, cap, cancelled, todo, refilling, erred,
                   producerVars, adapterVars, readerVars>>

(***************************************************************************)
(* The specification.                                                      *)
(***************************************************************************)
Producer(r) ==
    \/ decode_row(r) \/ forward_row(r) \/ count_sent(r) \/ walk_ends(r) 
    \/ walk_cancelled(r) \/ send_terminator(r) \/ thread_exits(r)

ProducerFault(r) == walk_fails(r) \/ die_silently(r)

next(m, r) ==
    \/ next_item(m, r) \/ next_done(m, r) \/ next_failed(m, r)
    \/ next_disconnected(m, r) \/ next_again(m, r)

CallBegins(m) == initialize_heap(m) \/ \E r \in Runs : pull_one(m, r)

InCall(m) ==
    \E r \in Runs : advance_buffered(m, r) \/ advance_exhausted(m, r) \/ next(m, r)

Teardown(m) ==
    \/ drop_egress_slot(m)
    \/ \E r \in Runs : drop_receiver(m, r) \/ join_producer(m, r)

Opening(m) == \E r \in Runs : open(m, r) \/ open_spawn_fails(m, r)

Caller(m) == begin_merge(m) \/ cancel(m) \/ drop_merger(m)

(* Every merge is over: nothing is left to do.                              *)
AllGone ==
    /\ \A m \in Merges : phase[m] = "gone"
    /\ UNCHANGED vars

Next ==
    \/ \E r \in Runs : Producer(r) \/ ProducerFault(r)
    \/ \E m \in Merges : Caller(m) \/ Opening(m) \/ Teardown(m)
                         \/ CallBegins(m) \/ InCall(m)
    \/ AllGone

(* Threads run, and a thread inside a call, a constructor or a drop goes on  *)
(* with it.  Nothing makes a caller start, cancel or drop a merge, or call   *)
(* again.                                                                   *)
Fairness ==
    /\ \A r \in Runs : WF_vars(Producer(r))
    /\ \A m \in Merges :
          WF_vars(Opening(m)) /\ WF_vars(InCall(m)) /\ WF_vars(Teardown(m))

Spec == Init /\ [][Next]_vars /\ Fairness

(***************************************************************************)
(* Properties.                                                             *)
(***************************************************************************)
Typed ==
    /\ active \in Int /\ live \in Int /\ depth \in Int
    /\ phase \in [Merges -> Phases]
    /\ cap \in [Merges -> Nat]
    /\ cancelled \in [Merges -> BOOLEAN]
    /\ todo \in [Merges -> SUBSET Runs]
    /\ refilling \in [Merges -> BOOLEAN]
    /\ erred \in [Merges -> BOOLEAN]
    /\ pc \in [Runs -> ProducerPcs]
    /\ pos \in [Runs -> Nat]
    /\ verdict \in [Runs -> {"Done", "Failed"}]
    /\ chan \in [Runs -> Seq(MergeMsg)]
    /\ rx \in [Runs -> BOOLEAN]
    /\ sent \in [Runs -> Nat]
    /\ received \in [Runs -> Nat]
    /\ state \in [Runs -> RunState]
    /\ buffer \in [Runs -> Seq(Nat \ {0})]
    /\ exhausted \in [Runs -> BOOLEAN]
    /\ head \in [Runs -> Nat]
    /\ held \in [Runs -> Nat]
    /\ out \in [Runs -> SUBSET (Nat \ {0})]

(* Type invariant: the domains, and neither the count of registered merges  *)
(* nor the gauge of running producers ever goes below zero, whatever fails  *)
(* to spawn.  (The depth gauge may: a row is counted behind its send.)      *)
TypeOK == Typed /\ active \in Nat /\ live \in Nat

(* A merge that reports Complete handed every row of every input to the     *)
(* reconciliation: a producer that failed, panicked, died or was cancelled, *)
(* and a caller that calls again after the error, never make a truncated    *)
(* input pass for an exhausted one.                                         *)
CompleteIsWhole ==
    \A m \in Merges : phase[m] = "complete" =>
        \A r \in RunsOf(m) : out[r] = 1 .. Rows[r]

(* When no merge is left, the three process-wide counters are back at zero, *)
(* whatever was still in the channels, being sent or unsettled when the     *)
(* mergers were dropped.                                                    *)
CountersSettle ==
    (\A m \in Merges : phase[m] \in {"idle", "gone"}) =>
        active = 0 /\ live = 0 /\ depth = 0

(* A merge that starts while no other is registered gets the capacity of a  *)
(* sole merge, whatever became of the merges before it.                     *)
SoloUnthrottled ==
    [][\A m \in Merges :
          /\ phase[m] = "idle" /\ phase'[m] = "open"
          /\ \A n \in Merges \ {m} : phase[n] \in {"idle", "gone"}
          => cap'[m] = capacity_from(1)]_vars

(* Dropping a merger ends: the join never waits for a producer that waits   *)
(* for room in the channel.                                                 *)
TeardownEnds == \A m \in Merges : phase[m] = "drop" ~> phase[m] = "gone"

(* A call on a merge returns: a consumer that waits for a row gets one, or  *)
(* the end of the run, or an error, however the producer ends.              *)
CallReturns ==
    \A m \in Merges :
        phase[m] = "run" /\ todo[m] # {} ~> phase[m] # "run" \/ todo[m] = {}

=============================================================================
