----------------------------- MODULE Workbench -----------------------------
(***************************************************************************)
(* The screen of a session, src/widgets/workbench.c: a stack of windows,   *)
(* one of which has the focus, and a queue of events.  The input callback  *)
(* of the event loop queues a key, a timer dispatches one event, and the   *)
(* key goes to the window with the focus, whose callback may open a        *)
(* window, queue more events, or ask for the removal of a window.          *)
(*                                                                         *)
(* The callbacks are those of xa-bbs: menus that open windows, and the     *)
(* question of bbs_logout.c, which keeps its window in one global, win.    *)
(* What curses draws is left out.                                          *)
(***************************************************************************)
EXTENDS Integers, SequencesExt

CONSTANTS MaxKeys,       \* bound: keys that are typed
          MaxWindows     \* bound: windows that are opened

ASSUME WorkbenchAssumption == MaxKeys \in Nat /\ MaxWindows \in Nat \ {0}

VARIABLES bench,         \* the panels of curses, panels, panel and main
          kinds,         \* what was opened: a window is its number
          win,           \* the global of bbs_logout.c
          queue,         \* the events of the workbench
          typed,         \* keys that were typed
          state,         \* of the process
          refused,       \* history: windows that were answered No
          hasty,         \* history: a key came to a window that was to go
          twins          \* history: two questions were open at once

vars == <<bench, kinds, win, queue, typed, state, refused, hasty, twins>>

Kinds == {"main", "menu", "text", "question"}
NoWindow == 0
Main == 1                \* the window of bbs_main_menu
Windows == 1 .. MaxWindows

Keys == {"ENTER", "LOGOUT", "ARROW", "F7", "F8", "F10", "F11", "F12", "RESIZE"}
Key(k) == [type |-> "EVENT_K_KEYBOARD", keycode |-> k, window |-> NoWindow]
Message == [type |-> "EVENT_K_MESSAGE", keycode |-> "none", window |-> NoWindow]
Exit == [type |-> "EVENT_K_EXIT", keycode |-> "none", window |-> NoWindow]
Removal(w) == [type |-> "EVENT_K_REMOVE", keycode |-> "none", window |-> w]

Events == {Key(k) : k \in Keys} \cup {Message, Exit} \cup {Removal(w) : w \in Windows}

\* "freed": a window was used that had been destroyed; no more is said of it.
States == {"running", "ending", "ended", "freed"}

\* The panels from below, how many there are, and the windows that are known.
Bench == [stack : Seq(Windows), panels : Nat, focus : Windows \cup {NoWindow},
          main : Windows]

TypeOK ==
    /\ bench \in Bench
    /\ kinds \in Seq(Kinds) /\ Len(kinds) <= MaxWindows
    /\ win \in Windows \cup {NoWindow}
    /\ queue \in Seq(Events)
    /\ typed \in 0 .. MaxKeys
    /\ state \in States
    /\ refused \subseteq Windows /\ hasty \in BOOLEAN /\ twins \in BOOLEAN

-----------------------------------------------------------------------------
(***************************************************************************)
(* What the methods do to the panels.                                      *)
(***************************************************************************)
Shown(b, w) == \E i \in DOMAIN b.stack : b.stack[i] = w

Place(stack, w) == CHOOSE n \in DOMAIN stack : stack[n] = w

\* del_panel, of a window that is shown or of one that is new.
Without(b, w) == IF Shown(b, w) THEN RemoveAt(b.stack, Place(b.stack, w)) ELSE b.stack

Raised(b, w) == [b EXCEPT !.stack = Append(Without(b, w), w), !.focus = w]

Added(b, w) == [Raised(b, w) EXCEPT !.panels = @ + 1]

\* panel_below
Below(b, w) ==
    LET i == Place(b.stack, w)
    IN  IF i = 1 THEN NoWindow ELSE b.stack[i - 1]

\* Mistaken form of Removed: the current panel is maintained, the total not.
RemovedUncounted(b, w) ==
    [b EXCEPT !.focus = IF @ # w THEN @ ELSE Below(b, w), !.stack = Without(b, w)]

\* Mistaken form of Removed: the current panel is not maintained.
RemovedUnder(b, w) == [b EXCEPT !.panels = @ - 1, !.stack = Without(b, w)]

Removed(b, w) ==
    LET n == IF b.panels > 0 THEN b.panels - 1 ELSE b.panels
    IN  [b EXCEPT !.panels = n,
                  !.focus = IF @ # w THEN @ ELSE IF n > 0 THEN Below(b, w) ELSE NoWindow,
                  !.stack = Without(b, w)]

Cycles(b) == b.panels > 0 /\ b.stack # << >>

Cycled(b) == IF Cycles(b) THEN Raised(b, Head(b.stack)) ELSE b

-----------------------------------------------------------------------------
(***************************************************************************)
(* The program: bbs_main_menu has set the menu, and bbs_run runs the loop. *)
(***************************************************************************)
Init ==
    /\ bench = [stack |-> <<Main>>, panels |-> 1, focus |-> Main, main |-> Main]
    /\ kinds = <<"main">>
    /\ win = NoWindow
    /\ queue = << >>
    /\ typed = 0
    /\ state = "running"
    /\ refused = {} /\ hasty = FALSE /\ twins = FALSE

Running == state \in {"running", "ending"}

ReadStdin ==
    /\ Running
    /\ typed < MaxKeys
    /\ typed' = typed + 1
    /\ \E k \in Keys : queue' = Append(queue, Key(k))
    /\ UNCHANGED <<bench, kinds, win, state, refused, hasty, twins>>

\* Mistaken form of After: the queue that was empty after the pop is made empty
\* after the callback.
AfterEmptied(events) == IF Len(queue) = 1 THEN << >> ELSE Tail(queue) \o events

\* The queue once its head is handled, with the events that were queued then.
After(events) == Tail(queue) \o events

Pops(k) ==
    /\ Running
    /\ queue # << >> /\ Head(queue) = Key(k)
    /\ UNCHANGED typed

HandleF10 ==
    /\ Pops("F10")
    /\ queue' = After(<< >>)
    /\ IF Shown(bench, bench.main)
       THEN bench' = Raised(bench, bench.main) /\ UNCHANGED state
       ELSE state' = "freed" /\ UNCHANGED bench
    /\ UNCHANGED <<kinds, win, refused, hasty, twins>>

\* A menu sends the description of its item when it is drawn and when it has
\* handled a key; the main menu draws its own.
Described(kind) == IF kind = "menu" THEN <<Message>> ELSE << >>

\* The window that comes to the top is drawn.
HandleF11 ==
    /\ Pops("F11")
    /\ queue' = After(IF Cycles(bench) THEN Described(kinds[Head(bench.stack)]) ELSE << >>)
    /\ bench' = Cycled(bench)
    /\ UNCHANGED <<kinds, win, state, refused, hasty, twins>>

\* The window with the focus is to go already.
ToGo == \E i \in DOMAIN queue : queue[i] = Removal(bench.focus)

\* Mistaken form of Closed: the main menu is removed like any window.
ClosedMain(b) == LET left == Removed(b, b.focus)
                 IN  [left EXCEPT !.focus = Last(left.stack)]

\* The window with the focus is gone, and the one on top has it.
Closed(b) == IF b.focus = b.main THEN b
             ELSE LET left == Removed(b, b.focus)
                  IN  [left EXCEPT !.focus = Last(left.stack)]

\* The main menu stays, and to close it when it is the last ends the session.
HandleF12 ==
    /\ Pops("F12")
    /\ IF bench.panels > 1
       THEN /\ queue' = After(<< >>)
            /\ bench' = Closed(bench)
            /\ hasty' = (hasty \/ ToGo)
       ELSE queue' = After(<<Exit>>) /\ UNCHANGED <<bench, hasty>>
    /\ UNCHANGED <<kinds, win, state, refused, twins>>

Menus == {i \in DOMAIN bench.stack : kinds[bench.stack[i]] = "menu"}

\* KEY_RESIZE: every window is erased and drawn.
HandleResize ==
    /\ Pops("RESIZE")
    /\ queue' = After([n \in 1 .. Cardinality(Menus) |-> Message])
    /\ UNCHANGED <<bench, kinds, win, state, refused, hasty, twins>>

-----------------------------------------------------------------------------
(***************************************************************************)
(* The windows, which have the other keys when they have the focus.        *)
(***************************************************************************)
At(k, kind) == Pops(k) /\ bench.focus # NoWindow /\ kinds[bench.focus] \in kind

\* workbench_add of a new window, which is drawn, by the window with the focus,
\* which has handled the key then.  A window that cannot be created is an error,
\* which is passed on until dispatch in bbs_run.c breaks the loop.
Open(kind) ==
    LET w == Len(kinds) + 1 IN
    IF w \in Windows
    THEN /\ bench' = Added(bench, w)
         /\ kinds' = Append(kinds, kind)
         /\ queue' = After(Described(kind) \o Described(kinds[bench.focus]))
         /\ UNCHANGED state
    ELSE state' = "ended" /\ queue' = After(<< >>) /\ UNCHANGED <<bench, kinds>>

\* An item that opens another menu, or a text.
Enter ==
    /\ At("ENTER", {"main", "menu"})
    /\ \E kind \in {"menu", "text"} : Open(kind)
    /\ UNCHANGED <<win, refused, hasty, twins>>

\* bbs_logout
Logout ==
    /\ At("LOGOUT", {"main"})
    /\ Open("question")
    /\ win' = IF Len(kinds) < MaxWindows THEN Len(kinds) + 1 ELSE win
    /\ twins' = (twins \/ \E w \in DOMAIN kinds : kinds[w] = "question" /\ Shown(bench, w))
    /\ UNCHANGED <<refused, hasty>>

\* logout(TRUE): bbs_logoff and event_break.
AnswerYes ==
    /\ At("F7", {"question"})
    /\ queue' = After(<< >>)
    /\ state' = "ended"
    /\ UNCHANGED <<bench, kinds, win, refused, hasty, twins>>

\* logout(FALSE): the window cannot go while its handler runs, so that its
\* removal is queued.
AnswerNo ==
    /\ At("F8", {"question"})
    /\ queue' = After(<<Removal(win)>>)
    /\ refused' = refused \cup {bench.focus}
    /\ hasty' = (hasty \/ ToGo)
    /\ UNCHANGED <<bench, kinds, win, state, twins>>

\* A key that opens nothing and answers nothing; F7 and F8 do neither while the
\* tab of the question is at its text.
OtherKey ==
    /\ \/ \E k \in {"F7", "F8", "ARROW"} : At(k, Kinds)
       \/ At("LOGOUT", Kinds \ {"main"})
       \/ At("ENTER", {"text", "question"})
    /\ queue' = After(Described(kinds[bench.focus]))
    /\ UNCHANGED <<bench, kinds, win, state, refused, hasty, twins>>

-----------------------------------------------------------------------------
(***************************************************************************)
(* The events that callbacks queue.                                        *)
(***************************************************************************)
PopsType(type) ==
    /\ Running
    /\ queue # << >> /\ Head(queue).type = type
    /\ UNCHANGED typed

ShowMessage ==
    /\ PopsType("EVENT_K_MESSAGE")
    /\ queue' = After(<< >>)
    /\ UNCHANGED <<bench, kinds, win, state, refused, hasty, twins>>

\* raise(SIGTERM), which the event loop sees when it next selects.
RaiseExit ==
    /\ PopsType("EVENT_K_EXIT")
    /\ queue' = After(<< >>)
    /\ state' = "ending"
    /\ UNCHANGED <<bench, kinds, win, refused, hasty, twins>>

\* The window is looked for by comparing it with those that are shown.
RemoveWindow ==
    LET w == Head(queue).window IN
    /\ PopsType("EVENT_K_REMOVE")
    /\ queue' = After(<< >>)
    /\ IF Shown(bench, w)
       THEN bench' = Removed(bench, w) /\ UNCHANGED state
       ELSE state' = "freed" /\ UNCHANGED bench
    /\ UNCHANGED <<kinds, win, refused, hasty, twins>>

Stop ==
    /\ state = "ending"
    /\ state' = "ended"
    /\ UNCHANGED <<bench, kinds, win, queue, typed, refused, hasty, twins>>

Dispatch ==
    \/ HandleF10 \/ HandleF11 \/ HandleF12 \/ HandleResize
    \/ Enter \/ Logout \/ AnswerYes \/ AnswerNo \/ OtherKey
    \/ ShowMessage \/ RaiseExit \/ RemoveWindow

Next == ReadStdin \/ Dispatch \/ Stop

Spec == Init /\ [][Next]_vars

\* The timer of bbs_run dispatches ten times a second.
FairSpec == Spec /\ WF_vars(Dispatch) /\ WF_vars(Stop)

-----------------------------------------------------------------------------
(***************************************************************************)
(* The keys go to the window that the user sees on top, whatever was       *)
(* opened, cycled, closed or removed while other events were in the queue. *)
(***************************************************************************)
FocusOnTop == bench.stack # << >> => bench.focus = Last(bench.stack)

(***************************************************************************)
(* No window is used after it was destroyed, and the main menu stays,      *)
(* unless a key comes to a window whose removal is queued, or two          *)
(* questions share their global.  Both happen in the code.                 *)
(***************************************************************************)
FreedOnlyInHaste ==
    /\ state = "freed" => hasty \/ twins
    /\ state # "freed" => Shown(bench, Main)

(***************************************************************************)
(* A question that is answered No goes away, whatever is typed meanwhile,  *)
(* as long as there is one question.                                       *)
(***************************************************************************)
AnswerCloses ==
    \A w \in Windows :
        w \in refused ~> ~ Shown(bench, w) \/ twins \/ state \in {"ended", "freed"}

-----------------------------------------------------------------------------
(***************************************************************************)
(* Why: what is known of the windows between two events.                   *)
(***************************************************************************)
\* No window is shown twice, each that is has been opened, and the main menu is.
Stacked ==
    /\ IsInjective(bench.stack) /\ bench.panels = Len(bench.stack)
    /\ \A i \in DOMAIN bench.stack : bench.stack[i] \in DOMAIN kinds
    /\ Shown(bench, Main) /\ bench.main = Main /\ kinds[Main] = "main"

\* The global names the question that was opened last: the one that is shown.
Asked ==
    \A w \in DOMAIN kinds : kinds[w] = "question" =>
        /\ win \in DOMAIN kinds /\ kinds[win] = "question"
        /\ Shown(bench, w) => w = win \/ twins

\* Only questions are to go, and unless a key was hasty each is there and goes
\* once.
Going ==
    \A i \in DOMAIN queue, w \in Windows : queue[i] = Removal(w) =>
        /\ w \in DOMAIN kinds /\ kinds[w] = "question"
        /\ hasty \/ twins \/ Shown(bench, w)
        /\ \A j \in DOMAIN queue : queue[j] = Removal(w) => i = j \/ hasty \/ twins

\* The inductive invariant.
IInv == TypeOK /\ Stacked /\ FocusOnTop /\ Asked /\ Going /\ FreedOnlyInHaste
=============================================================================
