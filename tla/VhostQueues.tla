---------------------------- MODULE VhostQueues -----------------------------
(***************************************************************************)
(* How a request gets from the guest's driver through a virtqueue to a     *)
(* worker and back (vhost_user.rs).  The event loop waits for kicks, takes *)
(* the available descriptor chains off the ring and hands them to the      *)
(* thread pool, or serves them itself; whoever has served one puts it on   *)
(* the used ring and interrupts the guest.                                 *)
(*                                                                         *)
(* With VIRTIO_RING_F_EVENT_IDX each side tells the other at which index   *)
(* it wants to be woken up.  Indices count modulo Modulus (2^16 in         *)
(* virtio), so that they wrap around.                                      *)
(***************************************************************************)
EXTENDS Integers, Sequences, FiniteSets

CONSTANTS
    Queues,     \* the high priority queue and the request queue
    Heads,      \* descriptor chains of a queue
    Modulus,    \* of ring indices
    NoQueue,
    Setups      \* event_idx: VIRTIO_RING_F_EVENT_IDX was negotiated,
                \* pool: there is a thread pool, heads: the chains the guest uses
                \* of each queue, exits: some requests cannot be decoded

ASSUME QueueAssumption ==
    /\ NoQueue \notin Queues
    /\ Modulus \in Nat /\ Cardinality(Heads) < Modulus
    /\ Setups \subseteq [event_idx : BOOLEAN, pool : BOOLEAN,
                         heads : [Queues -> SUBSET Heads], exits : BOOLEAN]

VARIABLES
    setup,                  \* one of Setups, chosen before the first request
    avail, used,            \* entries of the rings not taken by the other side
    next_avail, next_used,  \* the device's indices
    avail_event, used_event,\* the indices at which to wake the device, the guest
    kick, irq,              \* the eventfds
    pc, queue,              \* the event loop: step, queue it serves
    batch,                  \* chains it has taken (without a pool)
    working,                \* chains that workers serve (with a pool)
    driver, adding,         \* the guest: collecting answers, adding a request
    pending,                \* requests it waits for
    last_used,              \* the guest's index into the used ring
    exited                  \* process::exit() was called

deviceVars == <<next_avail, next_used, avail_event>>
loopVars == <<pc, queue, batch, working, exited>>
guestVars == <<driver, adding, pending, last_used, used_event>>
vars == <<setup, avail, used, kick, irq, deviceVars, loopVars, guestVars>>


Plus(i, n) == (i + n) % Modulus
Elems(s) == {s[i] : i \in DOMAIN s}

\* The other side asked to be woken up at event, and the index moved from old to
\* new.
NeedEvent(event, new, old) ==
    (new - event - 1) % Modulus < (new - old) % Modulus

\* The guest's index into the available ring.
AvailIdx(q) == Plus(next_avail[q], Len(avail[q]))

Outstanding(q) ==
    Elems(avail[q]) \cup Elems(used[q]) \cup working[q]
      \cup (IF queue = q THEN Elems(batch) ELSE {})

-----------------------------------------------------------------------------
(* The guest's driver.                                                     *)

\* A chain is made available ...
Add(q, h) ==
    /\ ~adding[q]
    /\ h \in setup.heads[q]
    /\ h \notin pending[q]
    /\ pending' = [pending EXCEPT ![q] = @ \cup {h}]
    /\ avail' = [avail EXCEPT ![q] = Append(@, h)]
    /\ adding' = [adding EXCEPT ![q] = TRUE]
    /\ UNCHANGED <<used, kick, irq, deviceVars, loopVars, driver, last_used, used_event>>

\* ... and the device is kicked if it wants to be.
Kick(q) ==
    /\ adding[q]
    /\ adding' = [adding EXCEPT ![q] = FALSE]
    /\ kick' = [kick EXCEPT ![q] =
          @ \/ ~setup.event_idx
            \/ NeedEvent(avail_event[q], AvailIdx(q), Plus(AvailIdx(q), -1))]
    /\ UNCHANGED <<avail, used, irq, deviceVars, loopVars, driver, pending, last_used, used_event>>

\* The interrupt handler collects the answers, asks for an interrupt at the next
\* one, and looks again.
Interrupt(q) ==
    /\ driver[q] = "wait" /\ irq[q]
    /\ irq' = [irq EXCEPT ![q] = FALSE]
    /\ driver' = [driver EXCEPT ![q] = "collect"]
    /\ UNCHANGED <<avail, used, kick, deviceVars, loopVars, adding, pending, last_used, used_event>>

Collect(q) ==
    /\ driver[q] = "collect"
    /\ \/ /\ used[q] # <<>>
          /\ used' = [used EXCEPT ![q] = Tail(@)]
          /\ last_used' = [last_used EXCEPT ![q] = Plus(@, 1)]
          /\ pending' = [pending EXCEPT ![q] = @ \ {Head(used[q])}]
          /\ UNCHANGED <<driver, used_event>>
       \/ /\ used[q] = <<>>
          /\ used_event' = [used_event EXCEPT ![q] = last_used[q]]
          /\ driver' = [driver EXCEPT ![q] = "check"]
          /\ UNCHANGED <<used, pending, last_used>>
    /\ UNCHANGED <<avail, kick, irq, deviceVars, loopVars, adding>>

LookAgain(q) ==
    /\ driver[q] = "check"
    /\ driver' = [driver EXCEPT ![q] = IF used[q] = <<>> THEN "wait" ELSE "collect"]
    /\ UNCHANGED <<avail, used, kick, irq, deviceVars, loopVars, adding, pending,
                   last_used, used_event>>

-----------------------------------------------------------------------------
(* The event loop.                                                         *)

\* Mutant: a kick of any queue is taken for one of the queue served.
HandleEventAny(q) ==
    /\ ~exited /\ pc = "wait" /\ kick[q]
    /\ kick' = [p \in Queues |-> FALSE]
    /\ pc' = "process"
    /\ queue' = q
    /\ UNCHANGED <<avail, used, irq, deviceVars, batch, working, exited, guestVars>>

\* handle_event(): a kick.  disable_notification() does nothing with EVENT_IDX.
HandleEvent(q) ==
    /\ ~exited /\ pc = "wait" /\ kick[q]
    /\ kick' = [kick EXCEPT ![q] = FALSE]
    /\ pc' = "process"
    /\ queue' = q
    /\ UNCHANGED <<avail, used, irq, deviceVars, batch, working, exited, guestVars>>

\* What comes after process_queue_pool() or process_queue_serial().
Processed ==
    IF setup.event_idx THEN pc' = "enable" /\ UNCHANGED queue
                ELSE pc' = "wait" /\ queue' = NoQueue

\* Mutant: a chain is handed to a worker before the index moves past it.
ProcessPeek ==
    LET q == queue
    IN  /\ ~exited /\ setup.pool /\ pc = "process"
        /\ \/ /\ avail[q] # <<>> /\ Head(avail[q]) \notin working[q]
              /\ working' = [working EXCEPT ![q] = @ \cup {Head(avail[q])}]
              /\ UNCHANGED <<avail, next_avail, pc, queue>>
           \/ /\ avail[q] = <<>>
              /\ Processed
              /\ UNCHANGED <<avail, next_avail, working>>
        /\ UNCHANGED <<used, kick, irq, next_used, avail_event, batch,
                       exited, guestVars>>

\* process_queue_pool(): every available chain goes to the pool.
ProcessQueuePool ==
    LET q == queue
    IN  /\ ~exited /\ setup.pool /\ pc = "process"
        /\ \/ /\ avail[q] # <<>>
              /\ avail' = [avail EXCEPT ![q] = Tail(@)]
              /\ next_avail' = [next_avail EXCEPT ![q] = Plus(@, 1)]
              /\ working' = [working EXCEPT ![q] = @ \cup {Head(avail[q])}]
              /\ UNCHANGED <<pc, queue>>
           \/ /\ avail[q] = <<>>
              /\ Processed
              /\ UNCHANGED <<avail, next_avail, working>>
        /\ UNCHANGED <<used, kick, irq, next_used, avail_event, batch,
                       exited, guestVars>>

\* process_queue_serial(): all available chains are taken at once.
ProcessQueueSerial ==
    LET q == queue
    IN  /\ ~exited /\ ~setup.pool /\ pc = "process"
        /\ batch' = avail[q]
        /\ avail' = [avail EXCEPT ![q] = <<>>]
        /\ next_avail' = [next_avail EXCEPT ![q] = AvailIdx(q)]
        /\ pc' = "serve"
        /\ UNCHANGED <<used, kick, irq, next_used, avail_event, queue,
                       working, exited, guestVars>>

\* Mutant: the guest's event index is taken for the one after it.
ReturnOffByOne(q, h) ==
    /\ used' = [used EXCEPT ![q] = Append(@, h)]
    /\ next_used' = [next_used EXCEPT ![q] = Plus(@, 1)]
    /\ irq' = [irq EXCEPT ![q] =
          @ \/ ~setup.event_idx \/ used_event[q] = Plus(next_used[q], 1)]
    /\ UNCHANGED <<next_avail, avail_event, kick, guestVars>>

\* return_descriptor(), under the lock of the vring: add_used(), and an
\* interrupt if needs_notification() says so.
ReturnDescriptor(q, h) ==
    LET new == Plus(next_used[q], 1)
    IN  /\ used' = [used EXCEPT ![q] = Append(@, h)]
        /\ next_used' = [next_used EXCEPT ![q] = new]
        /\ irq' = [irq EXCEPT ![q] =
              @ \/ ~setup.event_idx \/ NeedEvent(used_event[q], new, next_used[q])]
        /\ UNCHANGED <<next_avail, avail_event, kick, guestVars>>

\* process_message() fails for a request that cannot be decoded, and the daemon
\* exits.
Exit ==
    /\ exited' = TRUE
    /\ UNCHANGED <<avail, used, kick, irq, deviceVars, pc, queue, batch, working,
                   guestVars>>

\* A worker of the pool serves a request.
Work(q, h) ==
    /\ ~exited /\ h \in working[q]
    /\ \/ /\ ReturnDescriptor(q, h)
          /\ working' = [working EXCEPT ![q] = @ \ {h}]
          /\ UNCHANGED <<avail, pc, queue, batch, exited>>
       \/ /\ setup.exits
          /\ Exit

\* The event loop serves the requests it has taken, one after the other.
Serve ==
    /\ ~exited /\ pc = "serve"
    /\ \/ /\ batch # <<>>
          /\ ReturnDescriptor(queue, Head(batch))
          /\ batch' = Tail(batch)
          /\ UNCHANGED <<avail, pc, queue, working, exited>>
       \/ /\ batch # <<>> /\ setup.exits
          /\ Exit
       \/ /\ batch = <<>>
          /\ Processed
          /\ UNCHANGED <<avail, used, kick, irq, deviceVars, batch, working,
                         exited, guestVars>>

\* enable_notification(): ask for a kick at the next request ...
EnableNotification ==
    /\ ~exited /\ pc = "enable"
    /\ avail_event' = [avail_event EXCEPT ![queue] = next_avail[queue]]
    /\ pc' = "again"
    /\ UNCHANGED <<avail, used, kick, irq, next_avail, next_used, queue,
                   batch, working, exited, guestVars>>

\* Mutant: the loop ends without looking again.
LeaveLoop ==
    /\ ~exited /\ pc = "again"
    /\ pc' = "wait" /\ queue' = NoQueue
    /\ UNCHANGED <<avail, used, kick, irq, deviceVars, batch, working, exited,
                   guestVars>>

\* ... and go round again if one has come in between.
EndOfLoop ==
    /\ ~exited /\ pc = "again"
    /\ IF avail[queue] # <<>> THEN pc' = "process" /\ UNCHANGED queue
                              ELSE pc' = "wait" /\ queue' = NoQueue
    /\ UNCHANGED <<avail, used, kick, irq, deviceVars, batch, working, exited,
                   guestVars>>

-----------------------------------------------------------------------------
Init ==
    /\ setup \in Setups
    /\ avail = [q \in Queues |-> <<>>] /\ used = [q \in Queues |-> <<>>]
    /\ next_avail = [q \in Queues |-> 0] /\ next_used = [q \in Queues |-> 0]
    /\ avail_event = [q \in Queues |-> 0] /\ used_event = [q \in Queues |-> 0]
    /\ kick = [q \in Queues |-> FALSE] /\ irq = [q \in Queues |-> FALSE]
    /\ pc = "wait" /\ queue = NoQueue
    /\ batch = <<>> /\ working = [q \in Queues |-> {}]
    /\ driver = [q \in Queues |-> "wait"]
    /\ adding = [q \in Queues |-> FALSE] /\ pending = [q \in Queues |-> {}]
    /\ last_used = [q \in Queues |-> 0]
    /\ exited = FALSE

Loop ==
    \/ \E q \in Queues : HandleEvent(q)
    \/ ProcessQueuePool
    \/ ProcessQueueSerial
    \/ Serve
    \/ EnableNotification
    \/ EndOfLoop

Driver(q) == Kick(q) \/ Interrupt(q) \/ Collect(q) \/ LookAgain(q)

\* After process::exit() the guest waits in vain.
Gone == exited /\ UNCHANGED vars

Next ==
    /\ UNCHANGED setup
    /\ \/ \E q \in Queues, h \in Heads : Add(q, h)
       \/ \E q \in Queues : Driver(q)
       \/ Loop
       \/ \E q \in Queues, h \in Heads : Work(q, h)
       \/ Gone

\* The event loop, the pool's threads and the guest's driver keep running, and
\* epoll reports a kicked queue however often others are kicked.
Fairness ==
    /\ WF_vars(UNCHANGED setup /\ Loop)
    /\ \A q \in Queues : SF_vars(UNCHANGED setup /\ HandleEvent(q))
    /\ \A q \in Queues, h \in Heads : WF_vars(UNCHANGED setup /\ Work(q, h))
    /\ \A q \in Queues :
         /\ WF_vars(UNCHANGED setup /\ Kick(q))
         /\ WF_vars(UNCHANGED setup /\ (Interrupt(q) \/ Collect(q) \/ LookAgain(q)))

Spec == Init /\ [][Next]_vars /\ Fairness

-----------------------------------------------------------------------------
(* Properties.                                                             *)

\* A chain that the guest waits for is in exactly one place: it is never lost
\* between the rings, handed to two workers, or returned twice.
EachOnce ==
    \A q \in Queues :
        /\ Outstanding(q) = pending[q]
        /\ Len(avail[q]) + Len(used[q]) + Cardinality(working[q])
             + (IF queue = q THEN Len(batch) ELSE 0) = Cardinality(Outstanding(q))

\* When the event loop goes back to waiting, no request is left behind on the
\* ring of a queue without a kick that will bring the loop back to it.
NoLostKick ==
    \A q \in Queues :
        queue # q /\ ~adding[q] /\ avail[q] # <<>> => kick[q]

\* Likewise the guest never sleeps on an answer without an interrupt pending.
NoLostInterrupt ==
    \A q \in Queues :
        driver[q] = "wait" /\ used[q] # <<>> => irq[q]

\* Every request of a queue is answered, unless the daemon exits or the event
\* loop stays with another queue for ever: it serves a queue until it finds it
\* empty, and a guest can add requests as fast as they are taken.
Answered ==
    \A q \in Queues, h \in Heads :
        []<>(queue \in {q, NoQueue})
          => (h \in pending[q] ~> (h \notin pending[q] \/ exited))
=============================================================================
