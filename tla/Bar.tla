--------------------------------- MODULE Bar ---------------------------------
(***************************************************************************)
(* The top bar (src/src/bar.c) and its sensor helper (src/src/topbar.c).   *)
(*                                                                         *)
(* One helper writes a line of blocks at every tick into a pipe; the       *)
(* compositor keeps what the last complete line said, scrolls a block that *)
(* is too long by a timer, and paints one bar per output.  A paint is      *)
(* skipped when a key says that it would not differ.  The bar is off the   *)
(* screen while a fullscreen window is visible on its output.              *)
(*                                                                         *)
(* A line carries one block; its text is told apart by its length.         *)
(***************************************************************************)
EXTENDS Integers, Sequences

CONSTANTS
    Outputs, Views,
    Texts,       \* lengths of block texts, positive
    Caps,        \* values of max_block_chars; 0 is no cap
    Separators,  \* lengths of scroll_separator
    Colours,     \* configured colours
    Spots,       \* where an output may be in the layout
    Widths,      \* what it may measure
    MaxPipe,     \* parts of lines the pipe holds
    MaxLine,     \* HIKARI_BAR_MAX_LINE: parts of lines source->buf holds
    None,
    Races        \* orders of events known to break a property and let in

ASSUME LengthAssumption ==
    /\ Texts \subseteq Nat \ {0} /\ Caps \subseteq Nat /\ Separators \subseteq Nat
    /\ MaxPipe \in Nat /\ MaxLine \in Nat \ {0}
ASSUME NameAssumption ==
    /\ None \notin Outputs \cup Texts
    /\ None \notin [text : Nat, window : Seq(Nat), colour : Colours, x : Spots, width : Widths]
ASSUME RaceAssumption ==
    Races \subseteq {"colours",  \* a reload changes colours, which no key holds
                     "moved",    \* an output comes to a new place with the size its bar was painted at
                     "leaves"}   \* a fullscreen window leaves an output that stays listed

VARIABLES
    helper,  \* "runs" or "gone"; and the line it has written a part of
    pipe,    \* parts of lines: <<text, "head">> or <<text, "tail">>
    source,  \* struct hikari_topbar_source
    config,  \* the fields of hikari_configuration the bar reads
    out,     \* of an output: its box, whether it is lit, whether it is in the desktop
    bar,     \* of an output: struct hikari_bar, with the picture painted last
    view,    \* of a window: its output, whether it is hidden or fullscreen, its operation
    locked   \* whether the lock is up, and the windows it forces

vars == <<helper, pipe, source, config, out, bar, view, locked>>

NoBar == [pic |-> None, key |-> None, shown |-> FALSE, obscured |-> FALSE]
-----------------------------------------------------------------------------
(* What is drawn                                                           *)

\* block_scroll_period(): the text and the separator, if the text exceeds the cap.
Period(text, c) == IF c.cap > 0 /\ text > c.cap THEN text + c.sep ELSE 0

\* block_display_text(): a window of cap characters onto text and separator.
Window(b, c) ==
    LET p == Period(b.text, c) IN
    IF p = 0 THEN [i \in 1 .. b.text |-> i]
    ELSE [i \in 1 .. c.cap |-> (b.offset + i - 1) % p]

Picture(o, b, c, s) ==
    [text |-> b.text, window |-> Window(b, c), colour |-> c.colour, x |-> s[o].x, width |-> s[o].width]

\* Mutant: the offset of the scroll is left out.
KeyOfText(o, b, c, s) == [text |-> b.text, cap |-> c.cap, sep |-> c.sep, width |-> s[o].width]

\* build_cache_key(), cache_width and cache_scale.
Key(o, b, c, s) ==
    [text |-> b.text, offset |-> b.offset, cap |-> c.cap, sep |-> c.sep, width |-> s[o].width]

\* hikari_bar_refresh(), with the memory it needs.
Refresh(o, b, c, s, r) ==
    LET key == Key(o, b, c, s) IN
    IF ~s[o].lit THEN r
    ELSE IF r.pic # None /\ r.key = key THEN [r EXCEPT !.shown = ~r.obscured]
    ELSE [r EXCEPT !.pic = Picture(o, b, c, s), !.key = key, !.shown = ~r.obscured]

\* refresh_all_bars().
RefreshAll(b, c) == [o \in Outputs |-> Refresh(o, b, c, out, bar[o])]
-----------------------------------------------------------------------------
(* The helper and its pipe                                                 *)

\* main() of the helper, which writes a line with one flush; the pipe may take it in parts.
WriteHead(t) ==
    /\ helper = [state |-> "runs", half |-> None]
    /\ Len(pipe) < MaxPipe
    /\ pipe' = Append(pipe, <<t, "head">>)
    /\ helper' = [helper EXCEPT !.half = t]
    /\ UNCHANGED <<source, config, out, bar, view, locked>>

WriteTail ==
    /\ helper.state = "runs"
    /\ helper.half # None
    /\ Len(pipe) < MaxPipe
    /\ pipe' = Append(pipe, <<helper.half, "tail">>)
    /\ helper' = [helper EXCEPT !.half = None]
    /\ UNCHANGED <<source, config, out, bar, view, locked>>

HelperDies ==
    /\ helper.state = "runs"
    /\ helper' = [state |-> "gone", half |-> None]
    /\ UNCHANGED <<pipe, source, config, out, bar, view, locked>>

\* Mutant: the timer is armed again only after it was stopped.
TimerAfterLong(s, c) ==
    IF Period(s.block.text, c) > 0 THEN s ELSE [s EXCEPT !.armed = FALSE, !.pending = FALSE]

\* update_scroll_timer().
TimerAfter(s, c) ==
    IF Period(s.block.text, c) > 0
    THEN [s EXCEPT !.armed = TRUE, !.pending = @ \/ ~s.armed, !.seen = c]
    ELSE [s EXCEPT !.armed = FALSE, !.pending = @ /\ ~s.armed, !.seen = c]

\* parse_line(): a block whose text is the same goes on scrolling where it was; what is left of
\* a line that has lost its head has no '[' and changes nothing.
Parsed(b, line) ==
    IF Head(line)[2] = "tail" THEN b
    ELSE [text |-> Head(line)[1], offset |-> IF Head(line)[1] = b.text THEN b.offset ELSE 0]

Ends(parts) == {i \in DOMAIN parts : parts[i][2] = "tail"}

\* The last complete line of source->buf.
LastLine(parts) ==
    LET to == CHOOSE i \in Ends(parts) : \A j \in Ends(parts) : j <= i
        from == {0} \cup {i \in Ends(parts) : i < to}
        before == CHOOSE i \in from : \A j \in from : j <= i
    IN  SubSeq(parts, before + 1, to)

\* Mutant: what follows the last line is dropped with it.
RestDropped(parts) == <<>>

\* What is kept for the next read.
Rest(parts) ==
    LET to == CHOOSE i \in Ends(parts) : \A j \in Ends(parts) : j <= i
    IN  SubSeq(parts, to + 1, Len(parts))

\* topbar_readable() with data and no hangup: reads until the pipe is empty, or until the
\* buffer would pass its limit, which drops what it has.
Readable ==
    /\ source.open
    /\ helper.state = "runs"
    /\ pipe # <<>>
    /\ LET parts == source.buf \o pipe IN
       IF Len(parts) > MaxLine THEN
           /\ source' = [source EXCEPT !.buf = <<>>, !.lost = TRUE]
           /\ pipe' = SubSeq(parts, MaxLine + 2, Len(parts))
           /\ UNCHANGED bar
       ELSE
           /\ pipe' = <<>>
           /\ IF Ends(parts) = {} THEN
                  source' = [source EXCEPT !.buf = parts] /\ UNCHANGED bar
              ELSE
                  LET b == Parsed(source.block, LastLine(parts)) IN
                  /\ source' = TimerAfter([source EXCEPT !.buf = Rest(parts), !.block = b,
                                                         !.lost = @ /\ Head(LastLine(parts))[2] = "tail"],
                                          config)
                  /\ bar' = RefreshAll(b, config)
    /\ UNCHANGED <<helper, config, out, view, locked>>

\* The hangup drops what the pipe still holds; the blocks stay.
Hangup ==
    /\ source.open
    /\ helper.state = "gone"
    /\ source' = [source EXCEPT !.open = FALSE]
    /\ pipe' = <<>>
    /\ UNCHANGED <<helper, config, out, bar, view, locked>>

\* scroll_timer_handler().
ScrollTick ==
    /\ source.pending
    /\ LET p == Period(source.block.text, config) IN
       IF p = 0 THEN
           /\ source' = [source EXCEPT !.block.offset = 0, !.armed = FALSE, !.pending = FALSE, !.seen = config]
           /\ UNCHANGED bar
       ELSE
           LET b == [source.block EXCEPT !.offset = (@ + 1) % p] IN
           /\ source' = [source EXCEPT !.block = b]
           /\ bar' = RefreshAll(b, config)
    /\ UNCHANGED <<helper, pipe, config, out, view, locked>>

\* hikari_configuration_reload() does not touch the bar.
Reload ==
    /\ \E cap \in Caps, sep \in Separators, colour \in Colours :
          /\ "colours" \in Races \/ colour = config.colour
          /\ config' = [cap |-> cap, sep |-> sep, colour |-> colour]
    /\ UNCHANGED <<helper, pipe, source, out, bar, view, locked>>
-----------------------------------------------------------------------------
(* Outputs                                                                 *)

\* An output at the size its bar was painted at, and not at the place.
Displaced(r, x, w) == r.pic # None /\ r.key.width = w /\ r.pic.x # x

\* hikari_output_update_geometry() paints the bar of an output that is lit.
Resize(o) ==
    /\ out[o].wanted
    /\ \E x \in Spots, w \in Widths :
          /\ Displaced(bar[o], x, w) => "moved" \in Races
          /\ out' = [out EXCEPT ![o].x = x, ![o].width = w]
    /\ bar' = [bar EXCEPT ![o] = Refresh(o, source.block, config, out', @)]
    /\ UNCHANGED <<helper, pipe, source, config, view, locked>>

\* The lock blanks and lights all outputs, and paints nothing when it does.
Light(lit) == out' = [o \in Outputs |-> [out[o] EXCEPT !.lit = lit /\ out[o].wanted]]

Blank(lit) == locked.up /\ Light(lit) /\ UNCHANGED <<helper, pipe, source, config, bar, view, locked>>

\* hikari_output_detach() of an output that is switched off; its windows go to another one,
\* which ends fullscreen.
SwitchOff(o, into) ==
    /\ out[o].wanted
    /\ into # o /\ out[into].wanted
    /\ "leaves" \in Races \/ ~bar[o].obscured
    /\ out' = [out EXCEPT ![o].wanted = FALSE, ![o].lit = FALSE]
    /\ view' = [v \in Views |-> IF view[v].on = o THEN [view[v] EXCEPT !.on = into, !.full = FALSE]
                                ELSE view[v]]
    /\ bar' = [bar EXCEPT ![o].shown = FALSE]
    /\ UNCHANGED <<helper, pipe, source, config, locked>>

\* Lit at once unless the lock has blanked the outputs.
SwitchOn(o, lit) ==
    /\ ~out[o].wanted
    /\ lit \/ locked.up
    /\ out' = [out EXCEPT ![o].wanted = TRUE, ![o].lit = lit]
    /\ bar' = [bar EXCEPT ![o] = Refresh(o, source.block, config, out', @)]
    /\ UNCHANGED <<helper, pipe, source, config, view, locked>>
-----------------------------------------------------------------------------
(* Fullscreen windows                                                      *)

\* Mutant: any fullscreen window counts, hidden ones too.
ObscuredByHidden(o, V) == \E v \in Views : V[v].on = o /\ V[v].full

\* The answer of hikari_bar_update_visibility().
Obscured(o, V) == \E v \in Views : V[v].on = o /\ ~V[v].hidden /\ V[v].full

\* hikari_bar_update_visibility(): the node follows the answer when it changes.
Uncover(o, V, r) ==
    LET now == Obscured(o, V) IN
    IF now = r.obscured THEN r
    ELSE [r EXCEPT !.obscured = now, !.shown = r.pic # None /\ ~now]

\* A step of one window, which has its output's bar looked after.
Step(v, to) ==
    /\ view' = [view EXCEPT ![v] = to]
    /\ bar' = IF to.on = None THEN bar ELSE [bar EXCEPT ![to.on] = Uncover(to.on, view', @)]
    /\ UNCHANGED <<helper, pipe, source, config, out, locked>>

Quiet(v, to) ==
    /\ view' = [view EXCEPT ![v] = to]
    /\ UNCHANGED <<helper, pipe, source, config, out, bar, locked>>

MapView(v, o) ==
    /\ view[v].on = None
    /\ out[o].wanted /\ ~locked.up
    /\ Step(v, [on |-> o, hidden |-> FALSE, full |-> FALSE, op |-> "none"])

Show(v) == view[v].on # None /\ view[v].hidden /\ ~locked.up /\ Step(v, [view[v] EXCEPT !.hidden = FALSE])
Hide(v) == view[v].on # None /\ ~view[v].hidden /\ ~locked.up /\ Step(v, [view[v] EXCEPT !.hidden = TRUE])

\* hikari_view_unmap(), with the output the window was on.
UnmapView(v) ==
    /\ view[v].on # None
    /\ view' = [view EXCEPT ![v] = [on |-> None, hidden |-> TRUE, full |-> FALSE, op |-> "none"]]
    /\ bar' = [bar EXCEPT ![view[v].on] = Uncover(view[v].on, view', @)]
    /\ locked' = [locked EXCEPT !.forced = @ \ {v}]
    /\ UNCHANGED <<helper, pipe, source, config, out>>

\* hikari_view_request_fullscreen().
Request(v, full) ==
    /\ view[v].on # None /\ ~view[v].hidden
    /\ view[v].full # full /\ view[v].op = "none"
    /\ Quiet(v, [view[v] EXCEPT !.op = IF full THEN "fullscreen" ELSE "change", !.full = FALSE])

\* What tiles or maximizes a fullscreen window ends it at once; a reset does when it commits.
Rearrange(v, op) ==
    /\ view[v].on # None /\ view[v].op = "none"
    /\ op \in {"change", "reset"}
    /\ Quiet(v, [view[v] EXCEPT !.op = op, !.full = @ /\ op = "reset"])

\* Mutant: a commit of a geometry is not one of visibility.
CommitQuiet(v) == /\ view[v].op # "none"
                  /\ Quiet(v, [view[v] EXCEPT !.op = "none", !.full = view[v].op = "fullscreen"])

\* commit_pending_operation(), when the client has answered.
Commit(v) ==
    /\ view[v].op # "none"
    /\ Step(v, [view[v] EXCEPT !.op = "none",
                               !.full = (@ /\ view[v].op = "change") \/ view[v].op = "fullscreen"])

\* hikari_view_migrate(): of the two outputs the one it comes to is looked after.
Migrate(v, o) ==
    /\ view[v].on \notin {None, o}
    /\ ~view[v].hidden /\ out[o].wanted /\ ~locked.up
    /\ "leaves" \in Races \/ ~bar[view[v].on].obscured
    /\ Step(v, [view[v] EXCEPT !.on = o, !.op = "reset"])

Flip(V) == [v \in Views |-> IF v \in V THEN [view[v] EXCEPT !.hidden = ~@] ELSE view[v]]

\* override_visibility() writes the flags past hikari_view_hide() and hikari_view_show(): the
\* windows it forces are the hidden ones that are public and the others that are not.
Lock ==
    /\ ~locked.up
    /\ \E forced \in SUBSET {v \in Views : view[v].on # None} :
          locked' = [up |-> TRUE, forced |-> forced] /\ view' = Flip(forced)
    /\ UNCHANGED <<helper, pipe, source, config, out, bar>>

\* Mutant: the bars are left to hikari_view_show().
UncoverNone(V) == bar

\* reset_visibility() looks after the bar of every output listed.
UncoverAll(V) == [o \in Outputs |-> Uncover(o, V, bar[o])]

Unlock ==
    /\ locked.up
    /\ view' = Flip(locked.forced)
    /\ locked' = [up |-> FALSE, forced |-> {}]
    /\ bar' = UncoverAll(view')
    /\ Light(TRUE)
    /\ UNCHANGED <<helper, pipe, source, config>>
-----------------------------------------------------------------------------
\* hikari_topbar_source_init() may fail at the pipe, the fork or the event source.
Init ==
    /\ \E state \in {"runs", "gone"} :
          /\ helper = [state |-> state, half |-> None]
          /\ \E c \in [cap : Caps, sep : Separators, colour : Colours] :
                /\ config = c
                /\ source = [open |-> state = "runs", buf |-> <<>>, lost |-> FALSE, seen |-> c,
                             block |-> [text |-> 0, offset |-> 0], armed |-> FALSE, pending |-> FALSE]
    /\ pipe = <<>>
    /\ \E x \in Spots, w \in Widths :
          out = [o \in Outputs |-> [x |-> x, width |-> w, lit |-> TRUE, wanted |-> TRUE]]
    /\ bar = [o \in Outputs |-> NoBar]
    /\ view = [v \in Views |-> [on |-> None, hidden |-> TRUE, full |-> FALSE, op |-> "none"]]
    /\ locked = [up |-> FALSE, forced |-> {}]

Next ==
    \/ \E t \in Texts : WriteHead(t)
    \/ WriteTail \/ HelperDies \/ Readable \/ Hangup \/ ScrollTick \/ Reload
    \/ \E o \in Outputs :
          \/ Resize(o) \/ \E lit \in BOOLEAN : SwitchOn(o, lit)
          \/ \E into \in Outputs : SwitchOff(o, into)
    \/ \E v \in Views :
          \/ Show(v) \/ Hide(v) \/ UnmapView(v) \/ Commit(v)
          \/ \E full \in BOOLEAN : Request(v, full)
          \/ \E op \in {"change", "reset"} : Rearrange(v, op)
          \/ \E o \in Outputs : MapView(v, o) \/ Migrate(v, o)
    \/ Lock \/ Unlock \/ \E lit \in BOOLEAN : Blank(lit)

Spec == Init /\ [][Next]_vars
-----------------------------------------------------------------------------
TypeOK ==
    /\ source.block \in [text : Texts \cup {0}, offset : Nat]
    /\ pipe \in Seq(Texts \X {"head", "tail"}) /\ source.buf \in Seq(Texts \X {"head", "tail"})
    /\ config \in [cap : Caps, sep : Separators, colour : Colours]

\* A paint that is skipped would not have changed a pixel: whatever ticked, scrolled, reloaded or
\* was resized, a bar with the key of now shows the picture of now ("everything that determines
\* what would be painted", bar.c:660).
PicturesAreCurrent ==
    \A o \in Outputs :
        bar[o].pic # None /\ bar[o].key = Key(o, source.block, config, out)
            => bar[o].pic = Picture(o, source.block, config, out)

\* A long block scrolls and a short one costs no wakeups: the flag says whether the timer runs,
\* and it runs if the last line, under the cap it was read with, needs it.
TimerIsRight ==
    /\ source.armed <=> source.pending
    /\ source.seen = config => (source.armed <=> Period(source.block.text, config) > 0)

\* The block is the one of the last complete line that came out of the pipe: what is kept for the
\* next read is the start of a line, unless the limit has cut one.
LinesStayWhole ==
    /\ Len(source.buf) <= MaxLine
    /\ Ends(source.buf) = {}
    /\ LET parts == source.buf \o pipe IN
       ~source.lost => \A i \in DOMAIN parts :
           parts[i][2] = "tail" => i > 1 /\ parts[i - 1] = <<parts[i][1], "head">>

\* The bar is away exactly while a fullscreen window is visible on its output: the answer kept
\* is the one the windows give, once their operations have committed, and an output that was
\* switched off leaves no bar behind.
CoverIsCurrent ==
    \A o \in Outputs :
        /\ bar[o].shown => out[o].wanted /\ ~bar[o].obscured /\ bar[o].pic # None
        /\ (~locked.up /\ out[o].wanted /\ \A v \in Views : view[v].on = o => view[v].op = "none")
             => (bar[o].obscured <=>
                    \E v \in Views : view[v].on = o /\ view[v].full /\ ~view[v].hidden)

\* What the bar shows, when it moves and when it is away.
BarIsTrue == TypeOK /\ PicturesAreCurrent /\ TimerIsRight /\ LinesStayWhole /\ CoverIsCurrent
=============================================================================
