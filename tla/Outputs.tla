------------------------------ MODULE Outputs ------------------------------
(***************************************************************************)
(* Monitors and who may change them: output.c (plug, unplug, switch off    *)
(* and on), output_management.c (a client's configuration of several heads *)
(* at once), the blank screen lock, the reload of the configuration and    *)
(* the backend's own requests.  A handler runs to completion, so each is   *)
(* one action; what it calls are operators on the state of the outputs.    *)
(* Sizes are left out: an output is one wide, and x is its place.          *)
(***************************************************************************)
EXTENDS Integers, SequencesExt, FiniteSetsExt

CONSTANTS
    Outputs,        \* monitors
    Noop,           \* the headless fallback output
    MaxX,           \* bound: places are 0..MaxX
    OutputFaults,   \* calls that may fail: "commit", "scene", "apply", "publish"
    Races           \* orders of events known to break a property and let in

ASSUME OutputsAssumption ==
    /\ Noop \notin Outputs /\ "closed" \notin Outputs \cup {Noop}
    /\ MaxX \in Nat
    /\ OutputFaults \subseteq {"commit", "scene", "apply", "publish"}
    /\ Races \subseteq {"dark", "lastOff", "unlisted", "cycle", "half"}

VARIABLES
    out,        \* what each monitor is to the compositor
    list,       \* hikari_server.outputs, newest first
    present,    \* monitors whose hikari_output exists, listed or not
    home,       \* where a window is: an output, or "closed"
    current,    \* the output of hikari_server.workspace
    lock,       \* "open", "locked", or "blank" once the timer darkened it
    overrides,  \* output_management_overrides_config
    told,       \* place last published of each head
    missed,     \* the last publication could not be allocated
    asked,      \* heads of the configuration this step answers, <<>> for none
    answered,   \* the answer
    news,       \* publications of this step that differ from the one before
    crash       \* a NULL or uninitialised pointer was followed

outputVars == <<out, list, present, home, current, lock, overrides, told, missed,
               asked, answered, news, crash>>

Nowhere == -1
Places == Outputs \cup {Noop}
Xs == 0..MaxX
Listed == ToSet(list)

\* "loose" is a link taken out with wl_list_remove() and not initialised again.
Links == {"in", "init", "loose"}

Absent == [lit |-> FALSE, enabled |-> FALSE, wants |-> FALSE, link |-> "init",
           scene |-> FALSE, x |-> Nowhere, gx |-> Nowhere, bar |-> FALSE,
           stuck |-> FALSE]

OutputsTypeOK ==
    /\ out \in [Outputs -> [lit : BOOLEAN, enabled : BOOLEAN, wants : BOOLEAN,
                            link : Links, scene : BOOLEAN, x : Xs \cup {Nowhere},
                            gx : Xs \cup {Nowhere}, bar : BOOLEAN,
                            stuck : BOOLEAN]]
    /\ list \in Seq(Outputs)
    /\ present \subseteq Outputs /\ home \in Places \cup {"closed"} /\ current \in Places
    /\ lock \in {"open", "locked", "blank"}
    /\ overrides \in BOOLEAN /\ missed \in BOOLEAN /\ crash \in BOOLEAN
    /\ \A o \in DOMAIN told : told[o] \in Xs
    /\ answered \in {"none", "succeeded", "failed"} /\ news \in Nat

OutputsInit ==
    /\ out = [o \in Outputs |-> Absent]
    /\ list = <<>> /\ present = {} /\ home = "closed" /\ current = Noop
    /\ lock = "open" /\ overrides \in BOOLEAN
    /\ told = <<>> /\ missed = FALSE
    /\ asked = <<>> /\ answered = "none" /\ news = 0 /\ crash = FALSE

Blank == lock = "blank"

\* What a call that may fail returns.
Tries(fault) == IF fault \in OutputFaults THEN BOOLEAN ELSE {TRUE}

-----------------------------------------------------------------------------
(* The layout, the scene output and the CRTC of one output *)

\* geometry.x of an output; zero until it has been derived once.
GeometryX(s, o) == IF s[o].gx = Nowhere THEN 0 ELSE s[o].gx

\* hikari_bar_refresh() as far as the node goes: it needs a lit output that
\* has a size.
RefreshBar(r) == [r EXCEPT !.bar = @ \/ (r.enabled /\ r.gx # Nowhere)]

UpdateGeometry(r) == RefreshBar([r EXCEPT !.gx = r.x])

\* The layout's change event, which every add and remove raises.
LayoutChange(s, ls) ==
    [o \in Outputs |->
        IF o \in ToSet(ls) /\ s[o].x # Nowhere THEN UpdateGeometry(s[o])
                                              ELSE s[o]]

LayoutAdd(s, ls, o, x) == LayoutChange([s EXCEPT ![o].x = x], ls)

Attach(s, ls, o) ==
    IF s[o].scene THEN s
    ELSE LET in == LayoutAdd(s, ls, o, GeometryX(s, o))
         IN  [in EXCEPT ![o].scene = TRUE]

Detach(s, ls, o) ==
    LET gone == LayoutChange([s EXCEPT ![o].scene = FALSE, ![o].x = Nowhere], ls)
    IN  [gone EXCEPT ![o].bar = FALSE]

\* stuck is not in the code: it remembers, until the lock lights the outputs
\* again, that the commit failed.
Disable(r, ok) ==
    IF ~r.enabled THEN r
    ELSE IF ok
    THEN [r EXCEPT !.lit = FALSE, !.enabled = FALSE, !.link = "init", !.stuck = FALSE]
    ELSE [r EXCEPT !.stuck = TRUE]

Enable(r, ok) ==
    IF ~r.enabled /\ ok
    THEN [r EXCEPT !.lit = TRUE, !.enabled = TRUE,
                   !.link = IF @ = "init" THEN "in" ELSE @]
    ELSE r

-----------------------------------------------------------------------------
(* Where the windows of an output go *)

\* hikari_output_next(): the next output of the list that is part of the
\* desktop, or the output itself.  One that is not listed is linked to itself.
NextOutput(s, ls, o) ==
    LET i == SelectInSeq(ls, LAMBDA p : p = o)
        ring == IF i = 0 THEN <<>>
                ELSE SubSeq(ls, i + 1, Len(ls)) \o SubSeq(ls, 1, i - 1)
        j == SelectInSeq(ring, LAMBDA p : s[p].wants)
    IN  IF j = 0 THEN o ELSE ring[j]

\* A state of the desktop while a handler runs: the outputs, the window, the
\* workspace in use, how often clients were told, and whether it crashed.
Desktop == [out |-> out, home |-> home, current |-> current, news |-> 0,
            crash |-> crash]

Refuge(s, ls, o) ==
    LET next == NextOutput(s, ls, o) IN IF next = o THEN Noop ELSE next

\* evacuate_output(); with nothing listed hikari_output_next() returns NULL,
\* which hikari_workspace_next() follows.
Evacuate(d, ls, o) ==
    LET to == Refuge(d.out, ls, o)
    IN  IF ls = <<>> THEN [d EXCEPT !.crash = TRUE]
        ELSE [d EXCEPT !.home = IF @ = o THEN to ELSE @,
                       !.current = to]

-----------------------------------------------------------------------------
(* What clients are told *)

Snapshot(s, ls) == [o \in ToSet(ls) |-> GeometryX(s, o)]

\* Mutant: only outputs of the desktop are published.
DesktopBroadcast(s, ls, told_before) ==
    /\ missed' \in {~ok : ok \in Tries("publish")}
    /\ told' = IF missed' THEN told_before
               ELSE Snapshot(s, SelectSeq(ls, LAMBDA o : s[o].wants))

\* hikari_output_management_broadcast(): all heads or none.
Broadcast(s, ls, told_before) ==
    /\ missed' \in {~ok : ok \in Tries("publish")}
    /\ told' = IF missed' THEN told_before ELSE Snapshot(s, ls)

\* Mutant: the flag that holds broadcasts back is not set while applying.
NeverSuppressed == FALSE

Suppressed == TRUE

\* A broadcast raised by a layout change in the midst of an apply.
Midway(d, before, ls) ==
    IF ~Suppressed /\ Snapshot(d.out, ls) # Snapshot(before, ls)
    THEN [d EXCEPT !.news = @ + 1] ELSE d

Quiet == asked' = <<>> /\ answered' = "none" /\ news' = 0

Land(d) ==
    /\ out' = d.out /\ home' = d.home /\ current' = d.current
    /\ crash' = d.crash

-----------------------------------------------------------------------------
(* A monitor comes and goes *)

\* Mutant: a rolled back output stays in the list.
UnrolledBack(s, ls, o) ==
    [out |-> [s EXCEPT ![o] = [s[o] EXCEPT !.lit = FALSE, !.enabled = FALSE,
                                           !.scene = FALSE, !.link = "loose"]],
     list |-> ls]

\* hikari_output_init() gives an output back when it finds no place for it:
\* wants_enabled is left as it is.
RolledBack(s, ls, o) ==
    [out |-> [s EXCEPT ![o] = [s[o] EXCEPT !.lit = FALSE, !.enabled = FALSE,
                                           !.scene = FALSE, !.link = "loose"]],
     list |-> RemoveFirst(ls, o)]

Placed(s, ls, o, x) ==
    LayoutAdd([s EXCEPT ![o].scene = TRUE], ls, o, x)

\* The initial commit fails: the output exists and is in no list.
PlugUnlit(o) ==
    /\ "commit" \in OutputFaults /\ o \notin present
    /\ present' = present \cup {o}
    /\ out' = [out EXCEPT ![o] = Absent]
    /\ Broadcast(out', list, told) /\ Quiet
    /\ UNCHANGED <<list, home, current, lock, overrides, crash>>

\* Mutant: an output plugged in while the screen is dark is left lit.
BroughtUpLit(o, off) ==
    [Absent EXCEPT !.lit = TRUE, !.enabled = TRUE, !.wants = TRUE, !.link = "in"]

\* The output as it enters the list; a dark lock screen darkens it at once.
BroughtUp(o, off) ==
    LET up == [Absent EXCEPT !.lit = TRUE, !.enabled = TRUE, !.wants = TRUE,
                             !.link = "in"]
    IN  IF Blank THEN Disable(up, off) ELSE up

\* The scene output or the place in the layout cannot be allocated.  When the
\* commit that darkens it again fails too it stays listed, with no place.
PlugUnplaced(o) ==
    /\ "scene" \in OutputFaults /\ o \notin present
    /\ present' = present \cup {o}
    /\ \E off \in Tries("commit"), ok \in Tries("commit") :
        LET up == [out EXCEPT ![o] = BroughtUp(o, off)]
            ls == <<o>> \o list
            back == RolledBack(up, ls, o)
        IN  /\ ok \/ "half" \in Races
            /\ IF ok THEN out' = back.out /\ list' = back.list
               ELSE /\ \E s \in BOOLEAN : out' = [up EXCEPT ![o].scene = s]
                    /\ list' = ls
    /\ Broadcast(out', list', told) /\ Quiet
    /\ UNCHANGED <<home, current, lock, overrides, crash>>

\* Mutant: the windows of the fallback are not taken back.
NotTakenBack(o) == UNCHANGED <<home, current>>

\* The first monitor takes the windows of the fallback.
TakenBack(o) ==
    IF list = <<>>
    THEN /\ home' = IF home = Noop THEN o ELSE home
         /\ current' = o
    ELSE UNCHANGED <<home, current>>

Plug(o) ==
    /\ o \notin present
    /\ present' = present \cup {o}
    /\ list' = <<o>> \o list
    /\ \E off \in Tries("commit"), x \in Xs :
        out' = Placed([out EXCEPT ![o] = BroughtUp(o, off)], list', o, x)
    /\ TakenBack(o)
    /\ Broadcast(out', list', told) /\ Quiet
    /\ UNCHANGED <<lock, overrides, crash>>

\* hikari_output_fini(), then what wlr_output_layout does with the output.
Unplug(o) ==
    /\ o \in present
    /\ o \in Listed \/ "unlisted" \in Races
    /\ \/ "lastOff" \in Races \/ o \notin Listed
       \/ Len(list) = 1 \/ Refuge(out, list, o) # Noop
    /\ list' = RemoveFirst(list, o)
    /\ present' = present \ {o}
    /\ LET d == Evacuate([Desktop EXCEPT !.out[o] = Disable(out[o], TRUE)], list, o)
       IN  Land([d EXCEPT !.out = LayoutChange([d.out EXCEPT ![o] = Absent], list')])
    /\ Broadcast(out', list', told) /\ Quiet
    /\ UNCHANGED <<lock, overrides>>

-----------------------------------------------------------------------------
(* zwlr_output_manager_v1 *)

\* hikari_output_set_wants_enabled().  An output switched on is attached already;
\* its own commit repeats what the backend has just accepted, and succeeds.
SetWants(d, ls, o, on) ==
    LET r == d.out[o] IN
    IF r.wants = on THEN d
    ELSE IF on
    THEN [d EXCEPT !.out[o] =
             UpdateGeometry(IF Blank THEN [r EXCEPT !.wants = TRUE]
                                     ELSE Enable([r EXCEPT !.wants = TRUE], TRUE))]
    ELSE LET e == Evacuate([d EXCEPT !.out[o].wants = FALSE], ls, o)
         IN  [e EXCEPT !.out = Detach([e.out EXCEPT ![o] = Disable(@, TRUE)], ls, o)]

\* An enabled head that is not where the client wants it is moved.
Position(d, ls, h) ==
    IF ~h.on \/ GeometryX(d.out, h.o) = h.x THEN d
    ELSE [d EXCEPT !.out = LayoutAdd(@, ls, h.o, h.x)]

\* What the loop does with one head; one in lost cannot be placed.
SettleHead(e, h, lost) ==
    LET w == Midway(SetWants(e, list, h.o, h.on), e.out, list)
    IN  IF h.o \in lost THEN w ELSE Midway(Position(w, list, h), w.out, list)

\* The loop over the heads once the backend has taken the configuration.
Settle(d, heads, lost) == FoldLeft(LAMBDA e, h : SettleHead(e, h, lost), d, heads)

Coming(heads) == {h.o : h \in {g \in ToSet(heads) : g.on /\ ~out[g.o].wants}}

AttachAll(d, S) ==
    FoldSet(LAMBDA o, e : Midway([e EXCEPT !.out = Attach(e.out, list, o)], e.out, list),
            d, S)

\* Mutant: a refused configuration leaves its outputs attached.
NoDetach(d, S) == d

DetachAll(d, S) ==
    FoldSet(LAMBDA o, e : [e EXCEPT !.out = Detach(e.out, list, o)], d, S)

\* wlr_backend_commit() of all heads.
Committed(d, heads) ==
    [d EXCEPT !.out = [o \in Outputs |->
        IF \E h \in ToSet(heads) : h.o = o
        THEN [d.out[o] EXCEPT !.lit = \E h \in ToSet(heads) : h.o = o /\ h.on]
        ELSE d.out[o]]]

HeadState == [o : Outputs, on : {TRUE}, x : Xs] \cup [o : Outputs, on : {FALSE}, x : {0}]

\* What a client may ask: heads it was told of, each once, in any order.
Configurations ==
    {c \in UNION {[1..n -> HeadState] : n \in 1..Cardinality(Outputs)} :
        \A i, j \in DOMAIN c : i # j => c[i].o # c[j].o}

Known(heads) == \A i \in DOMAIN heads : heads[i].o \in Listed \cap DOMAIN told

\* Never is the last monitor of the desktop switched off on the way.
KeepsOne(heads) ==
    \A i \in DOMAIN heads :
        \/ heads[i].on
        \/ ~out[heads[i].o].wants
        \/ \E o \in Listed :
              IF \E j \in 1..i : heads[j].o = o
              THEN \E j \in 1..i : heads[j].o = o /\ heads[j].on
              ELSE out[o].wants

Moved(heads) ==
    {h.o : h \in {g \in ToSet(heads) : g.on /\ GeometryX(out, g.o) # g.x}}

Answer(heads, ok, d) ==
    /\ asked' = heads
    /\ answered' = IF ok THEN "succeeded" ELSE "failed"
    /\ Land(d)
    /\ Broadcast(out', list, told)
    /\ news' = IF missed' \/ told' = told THEN d.news ELSE d.news + 1

\* A test, or a request the compositor or the backend refuses outright.
Refuse(heads, kind) ==
    /\ Known(heads)
    /\ IF kind = "test" THEN /\ answered' \in {"failed"} \cup
                                  (IF overrides THEN {"succeeded"} ELSE {})
                             /\ asked' = <<>> /\ news' = 0
                             /\ UNCHANGED <<told, missed, out, home, current, crash>>
       ELSE /\ ~overrides \/ "apply" \in OutputFaults
            /\ Answer(heads, FALSE, Desktop)
    /\ UNCHANGED <<list, present, lock, overrides>>

\* An output cannot be attached after the first n, or the commit is refused.
ApplyFails(heads, n) ==
    /\ overrides /\ Known(heads) /\ "apply" \in OutputFaults
    /\ LET S == Coming(SubSeq(heads, 1, n))
       IN  Answer(heads, FALSE, DetachAll(AttachAll(Desktop, S), S))
    /\ UNCHANGED <<list, present, lock, overrides>>

\* A head that is switched on is not one of the desktop that is off, nor is the screen dark.
LightsNoDark(heads) ==
    \A i \in DOMAIN heads :
        heads[i].on => ~Blank /\ (out[heads[i].o].wants => out[heads[i].o].enabled)

Apply(heads) ==
    /\ overrides /\ Known(heads)
    /\ "dark" \in Races \/ LightsNoDark(heads)
    /\ "lastOff" \in Races \/ KeepsOne(heads)
    /\ \E lost \in SUBSET (IF "apply" \in OutputFaults THEN Moved(heads) ELSE {}) :
        LET ready == Committed(AttachAll(Desktop, Coming(heads)), heads)
        IN  Answer(heads, lost = {}, Settle(ready, heads, lost))
    /\ UNCHANGED <<list, present, lock, overrides>>

-----------------------------------------------------------------------------
(* The lock, the backend, the configuration and the user *)

Lock ==
    /\ lock = "open" /\ lock' = "locked" /\ Quiet
    /\ UNCHANGED <<out, list, present, home, current, overrides, told, missed, crash>>

\* disable_outputs_handler()
DisableOutputsHandler ==
    /\ lock = "locked" /\ lock' = "blank"
    /\ \E failing \in SUBSET (IF "commit" \in OutputFaults THEN Listed ELSE {}) :
        out' = [o \in Outputs |-> IF o \in Listed THEN Disable(out[o], o \notin failing)
                                                  ELSE out[o]]
    /\ Quiet
    /\ UNCHANGED <<list, present, home, current, overrides, told, missed, crash>>

LitAgain(failing) ==
    [o \in Outputs |->
        LET r == [out[o] EXCEPT !.stuck = FALSE]
        IN  IF o \in Listed /\ r.wants THEN Enable(r, o \notin failing) ELSE r]

\* enable_outputs() at a key, and hikari_lock_mode_fini()'s loop at an unlock.
EnableOutputs(unlock) ==
    /\ IF unlock THEN lock # "open" ELSE Blank
    /\ lock' = IF unlock THEN "open" ELSE "locked"
    /\ \E failing \in SUBSET (IF "commit" \in OutputFaults THEN Listed ELSE {}) :
        out' = LitAgain(failing)
    /\ Quiet
    /\ UNCHANGED <<list, present, home, current, overrides, told, missed, crash>>

\* The backend asks for a state of its own; heard only through the listener.
RequestState(o, on) ==
    /\ o \in present /\ out[o].link = "in"
    /\ on \/ out[o].enabled
    /\ out' = [out EXCEPT ![o].lit = on]
    /\ Quiet
    /\ UNCHANGED <<list, present, home, current, lock, overrides, told, missed, crash>>

\* An output of the desktop that is not where the file puts it is moved.
Reposition(s, o, to) ==
    IF s[o].wants /\ o \in DOMAIN to /\ GeometryX(s, o) # to[o]
    THEN LayoutAdd(s, list, o, to[o]) ELSE s

Repositioned(to) == FoldLeft(LAMBDA s, o : Reposition(s, o, to), out, list)

\* The output part of hikari_configuration_reload(): unless clients lead, the
\* absolute positions of the file, given to the outputs in the domain of to.
Reload(leads, to) ==
    /\ lock = "open"
    /\ overrides' = leads
    /\ out' = IF leads THEN out ELSE Repositioned(to)
    /\ IF out' = out THEN UNCHANGED <<told, missed>> ELSE Broadcast(out', list, told)
    /\ Quiet
    /\ UNCHANGED <<list, present, home, current, lock, crash>>

\* refresh_all_bars(), at the helper's line and the scroll timer.
RefreshBars ==
    /\ out' = [o \in Outputs |-> IF o \in Listed THEN RefreshBar(out[o]) ELSE out[o]]
    /\ Quiet
    /\ UNCHANGED <<list, present, home, current, lock, overrides, told, missed, crash>>

\* A window opens or goes, the pointer enters a monitor.
Use ==
    /\ \/ home' = (IF home = "closed" THEN current ELSE "closed") /\ UNCHANGED current
       \/ \E o \in Listed : out[o].x # Nowhere /\ current' = o /\ UNCHANGED home
    /\ Quiet
    /\ UNCHANGED <<out, list, present, lock, overrides, told, missed, crash>>

\* hikari_server_cycle_next_workspace(): on the fallback the neighbour is NULL,
\* or read through a link that was never initialised.
CycleWorkspace ==
    /\ lock = "open"
    /\ current # Noop \/ "cycle" \in Races
    /\ IF current = Noop THEN crash' = TRUE /\ UNCHANGED current
       ELSE current' = NextOutput(out, list, current) /\ UNCHANGED crash
    /\ Quiet
    /\ UNCHANGED <<out, list, present, home, lock, overrides, told, missed>>

-----------------------------------------------------------------------------

ManagementNext ==
    \E heads \in Configurations :
        \/ \E kind \in {"test", "apply"} : Refuse(heads, kind)
        \/ \E n \in 1..Len(heads) : ApplyFails(heads, n)
        \/ Apply(heads)

OutputsNext ==
    /\ ~crash
    /\ \/ \E o \in Outputs : PlugUnlit(o) \/ PlugUnplaced(o) \/ Plug(o) \/ Unplug(o)
       \/ ManagementNext
       \/ Lock \/ DisableOutputsHandler \/ \E unlock \in BOOLEAN : EnableOutputs(unlock)
       \/ \E o \in Outputs, on \in BOOLEAN : RequestState(o, on)
       \/ \E leads \in BOOLEAN : \E S \in SUBSET Outputs : \E to \in [S -> Xs] :
              Reload(leads, to)
       \/ RefreshBars \/ Use \/ CycleWorkspace

OutputsSpec == OutputsInit /\ [][OutputsNext]_outputVars

-----------------------------------------------------------------------------
(* Properties *)

(* What clients were last told is the list of monitors and their places, unless
   the last publication could not be allocated: no change of either goes
   unpublished, by a client, a reload, a plug or a rolled back one
   (server.c:1392, output.c:535, output_management.c:355). *)
PublishedIsCurrent == missed \/ told = Snapshot(out, list)

(* A listed monitor is part of the desktop exactly if it has a place in the
   layout and a scene output; its listeners hang on the signals exactly while
   the flag says so, and no freed link is left in the list.  No bar stays
   where a monitor taken from the layout was.  No window is left on the fallback
   output while a monitor is part of the desktop, and no step looking for the
   next one finds none and follows NULL (output_management.c:176,
   output.c:364, :671, :730, :769, :860, :1002). *)
DesktopConsistent ==
    /\ OutputsTypeOK
    /\ \A o \in Listed :
          /\ out[o].wants <=> out[o].scene
          /\ out[o].wants <=> out[o].x # Nowhere
          /\ out[o].link # "loose"
          /\ out[o].bar => out[o].x # Nowhere
    /\ \A o \in Outputs : out[o].enabled <=> out[o].link = "in"
    /\ \A o \in Outputs \ Listed : ~out[o].enabled /\ out[o].x = Nowhere
    /\ (\E o \in Listed : out[o].wants) => home # Noop
    /\ ~crash

(* While the lock keeps the screens dark, no monitor is lit that was not left
   lit by a failed commit: a monitor plugged in or switched on by the backend
   stays dark until a key (output.c:647, output.c:893, output.c:516). *)
DarkStaysDark == Blank => \A o \in Listed : out[o].lit => out[o].stuck

\* Whether the bar is drawn is no part of what a client asks for: the layout change of a
\* configuration that is taken back draws those that were due.
Unbarred(r) == [r EXCEPT !.bar = FALSE]

(* A client's configuration is applied as a whole or not at all, whatever head
   fails; only a place may be missing, and then it is answered "failed".  Other
   monitors keep their place and their state, and clients hear of the result
   once (output_management.c:113, :182, :235, :302). *)
WholeOrNothing ==
    [][asked' # <<>> =>
        /\ news' <= 1
        /\ \/ /\ answered' = "failed" /\ UNCHANGED <<home, current>>
              /\ \A o \in Outputs : Unbarred(out'[o]) = Unbarred(out[o])
           \/ /\ \A h \in ToSet(asked') :
                    /\ out'[h.o].wants = h.on /\ out'[h.o].lit = h.on
                    /\ h.on /\ answered' = "succeeded" => out'[h.o].x = h.x
              /\ \A o \in Outputs : (\A h \in ToSet(asked') : h.o # o)
                    => Unbarred(out'[o]) = Unbarred(out[o])]_outputVars
=============================================================================
