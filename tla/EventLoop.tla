------------------------------ MODULE EventLoop ------------------------------
(***************************************************************************)
(* src/events/event.c over the select loop of src/gpl/nix and the queues   *)
(* of src/cclibs/que: the program registers handlers and exit handlers,    *)
(* enters the loop, and is called back until a callback breaks the loop or *)
(* a signal, carried by the self-pipe, ends the process.                   *)
(*                                                                         *)
(* A handler is registered twice, in the object's queue and in one of the  *)
(* lists of the select loop; it is named by its callback_t.  The program   *)
(* registers a callback_t at most once at a time.  A callback is one step: *)
(* the process has one thread, and a signal that comes meanwhile only adds *)
(* to the pipe.                                                            *)
(***************************************************************************)
EXTENDS Integers, SequencesExt

CONSTANTS Inputs,     \* callbacks for input on a descriptor
          Timers,     \* callbacks of timers
          Workers,    \* callbacks that run when there is nothing else to do
          Requeued,   \* the timers and workers with the reque flag
          Interval,   \* a timer's interval in ticks
          Programs,   \* what programs register before the loop, in order
          Late,       \* what a callback may register
          Hooks,      \* exit handlers, in the order of event_at_exit
          Pipe,       \* the input of the self-pipe
          Signals,    \* SIGINT and SIGTERM
          MaxSent     \* bound: signals sent to the process

Handlers == Inputs \cup Timers \cup Workers

\* A callback_t is registered as one kind of handler, and once at a time.
ASSUME LoopAssumption ==
    /\ Inputs \cap (Timers \cup Workers) = {} /\ Timers \cap Workers = {}
    /\ Requeued \subseteq Timers \cup Workers
    /\ Interval \in [Timers -> Nat \ {0}]
    /\ Programs \subseteq Seq(Handlers) /\ \A p \in Programs : IsInjective(p)
    /\ Late \subseteq Handlers \ {"nothing", "break"}
    /\ Hooks \in Seq(ToSet(Hooks))
    /\ Pipe \notin Handlers
    /\ MaxSent \in Nat

VARIABLES reg,        \* event_t.handlers and the three lists of NxAppContext
          program,    \* what the program has still to register
          exits,      \* event_t.exit_handlers
          broken,     \* event_t.broken
          pipe,       \* the signals in the self-pipe
          ignored,    \* the signals that _sig_handler has set to SIG_IGN
          restored,   \* _read_pipe has put the first dispositions back
          pc,         \* where the process is
          active,     \* numActive of NxMainLoop
          mask,       \* the read mask that select has left
          ready,      \* the descriptors with input
          ran,        \* history: the exit handlers that were called
          sent        \* history: the number of signals sent

vars == <<reg, program, exits, broken, pipe, ignored, restored, pc, active,
          mask, ready, ran, sent>>

Places == {"setup", "top", "select", "scan", "timer", "worker", "returned",
           "cleanup", "ended", "killed", "crashed"}

Looping == pc \in {"top", "select", "scan", "timer", "worker"}
Over == pc \in {"ended", "killed", "crashed"}

\* A timer of timeout_list: its callback and the ticks to its expiration.
Pending == [callback : Timers, left : Nat]

Registry == [handlers : Seq(Handlers), sources : Seq(Inputs \cup {Pipe}),
             timeouts : Seq(Pending), works : Seq(Workers)]

TypeOK ==
    /\ reg \in Registry
    /\ program \in Seq(Handlers)
    /\ exits \in Seq(ToSet(Hooks))
    /\ broken \in BOOLEAN /\ restored \in BOOLEAN
    /\ pipe \in Seq(Signals)
    /\ ignored \subseteq Signals
    /\ pc \in Places
    /\ active \in Int
    /\ mask \subseteq Inputs \cup {Pipe}
    /\ ready \subseteq Inputs
    /\ ran \in Seq(ToSet(Hooks))
    /\ sent \in 0 .. MaxSent

\* _init_self_pipe: the pipe is empty and the signals have their handler.
PipeInit ==
    /\ pipe = << >>
    /\ ignored = {}
    /\ restored = FALSE

Init ==
    /\ PipeInit
    /\ reg = [handlers |-> << >>, sources |-> << >>,
              timeouts |-> << >>, works |-> << >>]
    /\ program \in Programs
    /\ exits = << >>
    /\ broken = FALSE
    /\ pc = "setup"
    /\ active = 0
    /\ mask = {}
    /\ ready = {}
    /\ ran = << >>
    /\ sent = 0

-----------------------------------------------------------------------------
(***************************************************************************)
(* Registration.                                                           *)
(***************************************************************************)
\* The queue of handlers.  que_delete deletes what the scan has come to.
PushHead(q, h) == <<h>> \o q
PushTail(q, h) == Append(q, h)
Found(q, h) == CHOOSE i \in DOMAIN q : q[i] = h
Delete(q, h) == RemoveAt(q, Found(q, h))

NxAddInput(r, h) == [r EXCEPT !.sources = <<h>> \o @]

\* Behind every timer that does not expire later.
NxAddTimeOut(r, t) ==
    LET before == {i \in DOMAIN r.timeouts : r.timeouts[i].left <= Interval[t]}
        timer == [callback |-> t, left |-> Interval[t]]
    IN  [r EXCEPT !.timeouts = InsertAt(@, Cardinality(before) + 1, timer)]

NxAddWorkProc(r, h) == [r EXCEPT !.works = Append(@, h)]

NxAdd(r, h) == CASE h \in Inputs  -> NxAddInput(r, h)
                 [] h \in Timers  -> NxAddTimeOut(r, h)
                 [] h \in Workers -> NxAddWorkProc(r, h)

\* event_register_input, event_register_timer, event_register_worker.
Registered(r, h) == [NxAdd(r, h) EXCEPT !.handlers = PushHead(@, h)]

\* Mistaken form of Freed: what the select loop knows of the handlers stays.
FreedQueueOnly(r) == [r EXCEPT !.handlers = << >>]

\* What is left of a list, in its order, without what is gone.
Kept(list, gone) ==
    LET kept[n \in 0 .. Len(list)] ==
            IF n = 0 THEN << >>
            ELSE IF list[n] \in gone THEN kept[n - 1]
            ELSE Append(kept[n - 1], list[n])
    IN  kept[Len(list)]

NxRemoveInput(sources, gone) == Kept(sources, gone)
NxRemoveTimeOut(timeouts, gone) ==
    Kept(timeouts, {t \in ToSet(timeouts) : t.callback \in gone})
NxRemoveWorkProc(works, gone) == Kept(works, gone)

\* _event_free_all: every handler of the queue is popped and removed.
Freed(r) ==
    LET gone == ToSet(r.handlers)
    IN  [handlers |-> << >>,
         sources |-> NxRemoveInput(r.sources, gone \cup {Pipe}),
         timeouts |-> NxRemoveTimeOut(r.timeouts, gone),
         works |-> NxRemoveWorkProc(r.works, gone)]

(***************************************************************************)
(* The end of _dispatch_timer and _dispatch_worker: the handler is looked  *)
(* up in the queue, in vain after a break, and deleted; with the reque     *)
(* flag it is registered again, at the tail of the queue.  The queue loses *)
(* its last node with its last entry, and what comes next, que_push_tail   *)
(* or que_next, follows the pointer to it.                                 *)
(***************************************************************************)
Redone(r, h) ==
    CASE h \notin ToSet(r.handlers) -> r
      [] h \in ToSet(r.handlers) /\ h \in Requeued ->
             [NxAdd(r, h) EXCEPT !.handlers = PushTail(Delete(@, h), h)]
      [] OTHER -> [r EXCEPT !.handlers = Delete(@, h)]

FollowsNull(r, h) == r.handlers = <<h>>

(***************************************************************************)
(* What a callback may do: nothing, break the loop, or register a handler. *)
(***************************************************************************)
Does(effect) ==
    /\ effect \in Late => effect \notin ToSet(reg.handlers)
    /\ broken' = (broken \/ effect = "break")

Effects == {"nothing", "break"} \cup Late

Effected(r, effect) ==
    CASE effect = "nothing" -> r
      [] effect = "break"   -> Freed(r)
      [] OTHER              -> Registered(r, effect)

-----------------------------------------------------------------------------
(***************************************************************************)
(* Before the loop.                                                        *)
(***************************************************************************)
Enter(place) == pc' = place

Register ==
    /\ pc = "setup"
    /\ program # << >>
    /\ reg' = Registered(reg, Head(program))
    /\ program' = Tail(program)
    /\ UNCHANGED <<exits, broken, pipe, ignored, restored, pc, active, mask,
                   ready, ran, sent>>

\* Mistaken form of AtExit: the handler goes to the head of the queue.
AtExitHead ==
    /\ pc = "setup"
    /\ Len(exits) < Len(Hooks)
    /\ exits' = <<Hooks[Len(exits) + 1]>> \o exits
    /\ UNCHANGED <<reg, program, broken, pipe, ignored, restored, pc, active,
                   mask, ready, ran, sent>>

AtExit ==
    /\ pc = "setup"
    /\ Len(exits) < Len(Hooks)
    /\ exits' = Append(exits, Hooks[Len(exits) + 1])
    /\ UNCHANGED <<reg, program, broken, pipe, ignored, restored, pc, active,
                   mask, ready, ran, sent>>

\* event_loop registers the self-pipe and calls NxMainLoop.
Loop ==
    /\ pc = "setup"
    /\ program = << >> /\ Len(exits) = Len(Hooks)
    /\ reg' = [reg EXCEPT !.sources = <<Pipe>> \o @]
    /\ Enter("top")
    /\ UNCHANGED <<program, exits, broken, pipe, ignored, restored, active,
                   mask, ready, ran, sent>>

-----------------------------------------------------------------------------
(***************************************************************************)
(* One turn of NxMainLoop.                                                 *)
(***************************************************************************)
Top ==
    /\ pc = "top"
    /\ active' = Len(reg.sources)
    /\ Enter(IF reg.sources = << >> /\ reg.timeouts = << >> /\ reg.works = << >>
             THEN "returned" ELSE "select")
    /\ UNCHANGED <<reg, program, exits, broken, pipe, ignored, restored, mask,
                   ready, ran, sent>>

Readable == {s \in ToSet(reg.sources) :
                 IF s = Pipe THEN pipe # << >> ELSE s \in ready}

\* With a worker queued, a select that has failed is not made again.
SelectSkipped == reg.works # << >> /\ active < 0

Due(timeouts) == timeouts # << >> /\ Head(timeouts).left = 0

Select ==
    /\ pc = "select"
    /\ ~ SelectSkipped
    /\ Readable # {} \/ Due(reg.timeouts) \/ reg.works # << >>
    /\ active' = Cardinality(Readable)
    /\ mask' = Readable
    /\ Enter("scan")
    /\ UNCHANGED <<reg, program, exits, broken, pipe, ignored, restored, ready,
                   ran, sent>>

\* The inner loop goes round for ever: active is -1 and errno still EINTR.
Spinning == pc = "select" /\ SelectSkipped

\* The first source of the list that is in the mask.
Scanned(s) ==
    /\ pc = "scan"
    /\ s \in mask
    /\ \E i \in DOMAIN reg.sources :
          /\ reg.sources[i] = s
          /\ \A j \in 1 .. i - 1 : reg.sources[j] \notin mask

\* Mistaken form of CallInput: the mask is not cleared before the rescan.
CallInputUncleared(h) ==
    /\ Scanned(h)
    /\ ready' = ready \ {h}
    /\ \E effect \in Effects :
          Does(effect) /\ reg' = Effected(reg, effect)
    /\ UNCHANGED <<program, exits, pipe, ignored, restored, pc, active, mask,
                   ran, sent>>

CallInput(h) ==
    /\ Scanned(h)
    /\ mask' = mask \ {h}
    /\ ready' = ready \ {h}
    /\ \E effect \in Effects :
          Does(effect) /\ reg' = Effected(reg, effect)
    /\ UNCHANGED <<program, exits, pipe, ignored, restored, pc, active, ran,
                   sent>>

\* _read_pipe: the first dispositions, the destructor, and later the signal.
ReadPipe ==
    /\ Scanned(Pipe)
    /\ pipe' = Tail(pipe)
    /\ restored' = TRUE
    /\ reg' = Freed(reg)
    /\ mask' = mask \ {Pipe}
    /\ Enter("cleanup")
    /\ UNCHANGED <<program, exits, broken, ignored, active, ready, ran, sent>>

ScanDone ==
    /\ pc = "scan"
    /\ mask \cap ToSet(reg.sources) = {}
    /\ Enter("timer")
    /\ UNCHANGED <<reg, program, exits, broken, pipe, ignored, restored,
                   active, mask, ready, ran, sent>>

\* The callback of a timer or worker h, once the select loop has popped it.
Dispatch(h, popped) ==
    /\ \E effect \in Effects :
          LET called == Effected(popped, effect) IN
          /\ Does(effect)
          /\ reg' = Redone(called, h)
          /\ Enter(IF FollowsNull(called, h) THEN "crashed" ELSE "top")
    /\ UNCHANGED <<program, exits, pipe, ignored, restored, active, mask,
                   ready, ran, sent>>

CallTimer(h) ==
    /\ pc = "timer"
    /\ Due(reg.timeouts) /\ h = Head(reg.timeouts).callback
    /\ Dispatch(h, [reg EXCEPT !.timeouts = Tail(@)])

NoTimer ==
    /\ pc = "timer"
    /\ ~ Due(reg.timeouts)
    /\ Enter(IF reg.works = << >> THEN "top" ELSE "worker")
    /\ UNCHANGED <<reg, program, exits, broken, pipe, ignored, restored,
                   active, mask, ready, ran, sent>>

CallWorker(h) ==
    /\ pc = "worker"
    /\ h = Head(reg.works)
    /\ Dispatch(h, [reg EXCEPT !.works = Tail(@)])

-----------------------------------------------------------------------------
(***************************************************************************)
(* The end: the loop returns and the program destroys the object, or       *)
(* _read_pipe does and raises the signal again.                            *)
(***************************************************************************)
Destroy ==
    /\ pc = "returned"
    /\ reg' = Freed(reg)
    /\ Enter("cleanup")
    /\ UNCHANGED <<program, exits, broken, pipe, ignored, restored, active,
                   mask, ready, ran, sent>>

CallHook ==
    /\ pc = "cleanup"
    /\ exits # << >>
    /\ ran' = Append(ran, Head(exits))
    /\ exits' = Tail(exits)
    /\ UNCHANGED <<reg, program, broken, pipe, ignored, restored, pc, active,
                   mask, ready, sent>>

CleanedUp ==
    /\ pc = "cleanup"
    /\ exits = << >>
    /\ Enter(IF restored THEN "killed" ELSE "ended")
    /\ UNCHANGED <<reg, program, exits, broken, pipe, ignored, restored,
                   active, mask, ready, ran, sent>>

-----------------------------------------------------------------------------
(***************************************************************************)
(* The surroundings: input, time and signals.                              *)
(***************************************************************************)
Arrives(h) ==
    /\ ~ Over
    /\ h \notin ready
    /\ ready' = ready \cup {h}
    /\ UNCHANGED <<reg, program, exits, broken, pipe, ignored, restored, pc,
                   active, mask, ran, sent>>

\* Mistaken form of Nearer: a timer that is overdue is not taken as due now.
NearerUnclamped(timer) == [timer EXCEPT !.left = @ - 1]

Nearer(timer) == [timer EXCEPT !.left = IF @ = 0 THEN 0 ELSE @ - 1]

Tick ==
    /\ Looping
    /\ \E i \in DOMAIN reg.timeouts : reg.timeouts[i].left > 0
    /\ reg' = [reg EXCEPT !.timeouts = [i \in DOMAIN @ |-> Nearer(@[i])]]
    /\ UNCHANGED <<program, exits, broken, pipe, ignored, restored, pc, active,
                   mask, ready, ran, sent>>

(***************************************************************************)
(* A signal: ignored the second time it comes, written to the pipe by      *)
(* _sig_handler the first time, and fatal once its disposition is          *)
(* restored.  If select waits, and has found nothing to read, it may fail  *)
(* with EINTR: numActive is then -1.                                       *)
(***************************************************************************)
Interrupts == pc = "select" /\ ~ SelectSkipped /\ Readable = {}

\* Mistaken form of Handled: the signal is not written to the pipe.
HandledUnwritten(s) ==
    /\ ~ restored
    /\ s \notin ignored
    /\ ignored' = ignored \cup {s}
    /\ UNCHANGED <<pipe, active, pc>>

Handled(s) ==
    /\ ~ restored
    /\ s \notin ignored
    /\ pipe' = Append(pipe, s)
    /\ ignored' = ignored \cup {s}
    /\ active' \in {active} \cup IF Interrupts THEN {-1} ELSE {}
    /\ UNCHANGED pc

Fatal ==
    /\ restored
    /\ Enter("killed")
    /\ UNCHANGED <<pipe, ignored, active>>

Dropped(s) ==
    /\ ~ restored
    /\ s \in ignored
    /\ UNCHANGED <<pipe, ignored, active, pc>>

Signal(s) ==
    /\ ~ Over
    /\ sent < MaxSent
    /\ sent' = sent + 1
    /\ Handled(s) \/ Fatal \/ Dropped(s)
    /\ UNCHANGED <<reg, program, exits, broken, restored, mask, ready, ran>>

-----------------------------------------------------------------------------
Step ==
    \/ Register \/ AtExit \/ Loop
    \/ Top \/ Select
    \/ ReadPipe \/ ScanDone \/ NoTimer
    \/ \E h \in Inputs : CallInput(h)
    \/ \E h \in Timers : CallTimer(h)
    \/ \E h \in Workers : CallWorker(h)
    \/ Destroy \/ CallHook \/ CleanedUp

Surroundings ==
    \/ Tick
    \/ \E h \in Inputs : Arrives(h)
    \/ \E s \in Signals : Signal(s)

Next == Step \/ Surroundings

Spec == Init /\ [][Next]_vars

\* The process goes on running, its callbacks return, and time passes.
FairSpec == Spec /\ WF_vars(Step) /\ WF_vars(Tick)

-----------------------------------------------------------------------------
(***************************************************************************)
(* The object and the select loop agree on what is registered: between two *)
(* callbacks every entry of the queue of handlers is in one of the lists   *)
(* of the select loop and the reverse, so that a handler that is done, or  *)
(* freed by a break, is called no more and none is freed twice.  The queue *)
(* is never followed to a node that it has lost as long as the program     *)
(* listens to an input, as each program of this code does.                 *)
(***************************************************************************)
Callbacks(timeouts) == [i \in DOMAIN timeouts |-> timeouts[i].callback]

NxNames(r) ==
    (ToSet(r.sources) \ {Pipe}) \cup ToSet(Callbacks(r.timeouts)) \cup ToSet(r.works)

Once(r) == /\ IsInjective(r.handlers) /\ IsInjective(r.sources)
           /\ IsInjective(Callbacks(r.timeouts)) /\ IsInjective(r.works)

HandlersAgree ==
    IF pc = "crashed" THEN Inputs \cap ToSet(reg.sources) = {}
    ELSE ToSet(reg.handlers) = NxNames(reg) /\ Once(reg)

(***************************************************************************)
(* Exit handlers are called in the order of event_at_exit, each at most    *)
(* once, and the process does not end before all of them were, whether the *)
(* loop was broken or a signal came, at whatever moment: only a second     *)
(* signal that comes while they run cuts them off.                         *)
(***************************************************************************)
HooksRun ==
    /\ pc # "setup" => ran \o exits = Hooks
    /\ pc = "ended" \/ (pc = "killed" /\ sent = 1) => ran = Hooks

(***************************************************************************)
(* A signal ends the process, as event.pod says, whenever it comes, even   *)
(* before the loop, but for one case: select was interrupted with a worker *)
(* queued.                                                                 *)
(***************************************************************************)
SignalEndsOrSpins == sent > 0 ~> Over \/ Spinning

(***************************************************************************)
(* A timer that has expired is called, however much input there is and     *)
(* however often the other timers are queued again.                        *)
(***************************************************************************)
IsDue(t) == \E i \in DOMAIN reg.timeouts :
               reg.timeouts[i].callback = t /\ reg.timeouts[i].left = 0

TimersRun ==
    \A t \in Timers : IsDue(t) ~> ~ IsDue(t) \/ Over \/ Spinning

-----------------------------------------------------------------------------
(***************************************************************************)
(* Why the handlers agree and the hooks run: what is known between two     *)
(* steps of the process.                                                   *)
(***************************************************************************)
\* "Since the timer list is sorted by expiration time, only the first entry
\* in the timer list needs to be examined."
Sorted(timeouts) ==
    \A i, j \in DOMAIN timeouts : i <= j => timeouts[i].left <= timeouts[j].left

FirstIsDue == \A t \in Timers : IsDue(t) => Due(reg.timeouts)

\* After a break or a signal nothing is registered any more, whatever was
\* marked in the mask or due.
Nothing == [handlers |-> << >>, sources |-> << >>, timeouts |-> << >>, works |-> << >>]

BrokenIsQuiet ==
    broken \/ restored \/ pc \in {"cleanup", "ended"} => reg = Nothing

\* What the program has still to register is new.
Started ==
    pc = "setup" =>
        /\ ran = << >>
        /\ Len(exits) <= Len(Hooks) /\ \A i \in DOMAIN exits : exits[i] = Hooks[i]
        /\ IsInjective(program) /\ ToSet(program) \cap ToSet(reg.handlers) = {}
        /\ Pipe \notin ToSet(reg.sources)
        /\ ~ broken /\ ~ restored

\* What select has found is still there when it is come to.
Selected ==
    /\ pc = "scan" /\ Pipe \in mask => pipe # << >>
    /\ pc = "worker" => reg.works # << >>
    /\ restored \/ pipe # << >> => sent > 0

\* The inductive invariant.
IInv ==
    /\ TypeOK /\ HandlersAgree /\ HooksRun
    /\ Sorted(reg.timeouts) /\ BrokenIsQuiet /\ Started /\ Selected
=============================================================================
