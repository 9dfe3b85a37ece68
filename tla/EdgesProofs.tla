---------------------------- MODULE EdgesProofs ----------------------------
(***************************************************************************)
(* Theorems about what sits at the edges of an output, for any numbers of  *)
(* everything, without the orders of events that `Races' and `PanelRaces'  *)
(* name: the bar (Bar) and the panels of the layer shell (Panels).         *)
(*                                                                         *)
(* The bar.  The invariant has four parts that meet only in the types:     *)
(* `Flowing' is about the lines between the helper and the blocks,         *)
(* `Ticking' about the timer, `Painted' about the picture of a bar and the *)
(* key it was painted under, `Covered' about windows and the bar below     *)
(* them.  A step of the helper or the pipe disturbs the first two, a paint *)
(* the third; a step of a window leaves the pictures alone (`Uncover').    *)
(*                                                                         *)
(* The panels.  `Orderly' is stated for a state of the world and not for   *)
(* the variables, since the handlers hand the world from one operator to   *)
(* the next.  `Fitting' is what every operator keeps; `Tidy' is about the  *)
(* area of an output and the strips on it, and is what an output lacks     *)
(* that is `Ready' to be arranged.  `ArrangeIs' says what arranging does,  *)
(* from the fold over the panels of an output (`RowedIs').                 *)
(***************************************************************************)
EXTENDS Bar, Panels, FiniteSetTheorems, WellFoundedInduction, NaturalsInduction, SequenceTheorems, TLAPS

Parts == Texts \X {"head", "tail"}
Blocks == [text : Texts \cup {0}, offset : Nat]
Configs == [cap : Caps, sep : Separators, colour : Colours]
Pictures == [text : Nat, window : Seq(Nat), colour : Colours, x : Spots, width : Widths]
Keys == [text : Texts \cup {0}, offset : Nat, cap : Caps, sep : Separators, width : Widths]
Helpers == [state : {"runs", "gone"}, half : Texts \cup {None}]
Sources == [open : BOOLEAN, buf : Seq(Parts), lost : BOOLEAN, seen : Configs, block : Blocks,
            armed : BOOLEAN, pending : BOOLEAN]
Outs == [Outputs -> [x : Spots, width : Widths, lit : BOOLEAN, wanted : BOOLEAN]]
OneBar == [pic : Pictures \cup {None}, key : Keys \cup {None}, shown : BOOLEAN, obscured : BOOLEAN]
OneView == [on : Outputs \cup {None}, hidden : BOOLEAN, full : BOOLEAN,
            op : {"none", "change", "reset", "fullscreen"}]
Windows == [Views -> OneView]

BarTypes ==
    /\ helper \in Helpers /\ pipe \in Seq(Parts) /\ source \in Sources /\ config \in Configs
    /\ out \in Outs /\ bar \in [Outputs -> OneBar] /\ view \in Windows
    /\ locked \in [up : BOOLEAN, forced : SUBSET Views]

\* Every tail follows its head, but for the first part if the limit has cut what was before.
Follows(parts, lost) ==
    \A i \in DOMAIN parts :
        parts[i][2] = "tail" => IF i = 1 THEN lost ELSE parts[i - 1] = <<parts[i][1], "head">>

\* The tail that the helper is about to write will follow its head.
Awaits(parts, lost, half) ==
    IF parts = <<>> THEN lost ELSE parts[Len(parts)] = <<half, "head">>

\* What is kept for the next read is part of a line.
Flowing ==
    /\ Follows(source.buf \o pipe, source.lost)
    /\ helper.half # None => /\ helper.state = "runs"
                             /\ Awaits(source.buf \o pipe, source.lost, helper.half)
    /\ Len(source.buf) <= MaxLine /\ Ends(source.buf) = {}

\* The timer is as the configuration it was last set under has it.
Ticking ==
    /\ source.armed <=> source.pending
    /\ source.armed <=> Period(source.block.text, source.seen) > 0

\* The picture that belongs to a key.
Drawn(key, colour, x) ==
    [text |-> key.text, window |-> Window(key, key), colour |-> colour, x |-> x, width |-> key.width]

\* A bar shows what its key says, at the place of its output if it has that size.
PaintedOk(r, colour, s) ==
    r.pic # None => /\ r.key \in Keys
                    /\ r.pic = Drawn(r.key, colour, r.pic.x)
                    /\ r.key.width = s.width => r.pic.x = s.x

Painted == \A o \in Outputs : PaintedOk(bar[o], config.colour, out[o])

\* Whether a window on an output waits for its client.
Waits(o, V) == \E v \in Views : V[v].on = o /\ V[v].op # "none"

\* An output that is not in the desktop has no window, no bar and no light.
HomeOk(r, s, o, V) ==
    /\ r.shown => s.wanted /\ ~r.obscured /\ r.pic # None
    /\ ~s.wanted => ~s.lit /\ ~r.obscured /\ \A v \in Views : V[v].on # o

\* The answer kept is the one the windows give, but for an operation that will ask again.
CoverOk(r, o, V) ==
    IF r.obscured THEN Obscured(o, V) \/ Waits(o, V) ELSE ~Obscured(o, V)

Covered ==
    \A o \in Outputs :
        /\ HomeOk(bar[o], out[o], o, view)
        /\ ~locked.up => CoverOk(bar[o], o, view)

BarOk == BarTypes /\ Flowing /\ Ticking /\ Painted /\ Covered
-----------------------------------------------------------------------------
(* Sequences of parts *)

\* A set of numbers below n has a greatest one.
LEMMA Greatest ==
    ASSUME NEW n \in Nat, NEW T \in SUBSET (0 .. n), T # {}
    PROVE  \E m \in T : \A j \in T : j <= m
  <1> DEFINE D == {n - i : i \in T}
  <1>1. D \subseteq Nat /\ D # {}
    <2>1. D \subseteq Nat
      OBVIOUS
    <2>2. PICK i \in T : TRUE
      OBVIOUS
    <2>3. n - i \in D
      BY <2>2
    <2> QED
      BY <2>1, <2>3
  <1>2. PICK x \in D : \A y \in D : <<y, x>> \notin OpToRel(<, Nat)
    BY <1>1, WFMin, NatLessThanWellFounded, Zenon
  <1>3. PICK m \in T : x = n - m
    BY <1>2
  <1>4. ASSUME NEW j \in T PROVE j <= m
    <2>1. n - j \in D /\ n - j \in Nat /\ x \in Nat
      BY <1>1, <1>2
    <2>2. ~(n - j < x)
      BY <1>2, <2>1 DEF OpToRel
    <2> QED
      BY <1>3, <2>2
  <1> QED
    BY <1>3, <1>4

\* What the stream becomes when the helper writes a part.
LEMMA Written ==
    ASSUME NEW s \in Seq(Parts), NEW t \in Seq(Parts), NEW e \in Parts
    PROVE  /\ s \o Append(t, e) = Append(s \o t, e)
           /\ Append(t, e) \in Seq(Parts) /\ s \o t \in Seq(Parts)
  <1>1. Append(t, e) = t \o <<e>> /\ Append(t, e) \in Seq(Parts)
    BY AppendIsConcat, AppendProperties
  <1>2. s \o t \in Seq(Parts) /\ <<e>> \in Seq(Parts)
    BY ConcatProperties
  <1>3. Append(s \o t, e) = (s \o t) \o <<e>>
    BY <1>2, AppendIsConcat
  <1> QED
    BY <1>1, <1>2, <1>3, ConcatAssociative

\* A head may follow anything, and its tail is awaited then.
LEMMA HeadFollows ==
    ASSUME NEW s \in Seq(Parts), NEW lost \in BOOLEAN, NEW t \in Texts, Follows(s, lost)
    PROVE  Follows(Append(s, <<t, "head">>), lost) /\ Awaits(Append(s, <<t, "head">>), lost, t)
  <1> DEFINE e == <<t, "head">>
             d == Append(s, e)
  <1>1. e \in Parts /\ e[2] = "head"
    BY DEF Parts
  <1>2. /\ d \in Seq(Parts) /\ d # <<>> /\ Len(d) = Len(s) + 1 /\ d[Len(s) + 1] = e
        /\ \A i \in 1 .. Len(s) : d[i] = s[i]
    BY <1>1, AppendProperties
  <1>3. DOMAIN d = 1 .. Len(s) + 1 /\ DOMAIN s = 1 .. Len(s) /\ Len(s) \in Nat
    BY <1>2, LenProperties
  <1> HIDE DEF d
  <1>4. Follows(d, lost)
    BY <1>1, <1>2, <1>3 DEF Follows
  <1>5. Awaits(d, lost, t)
    BY <1>2 DEF Awaits
  <1> QED
    BY <1>4, <1>5 DEF d

\* A tail may follow where it is awaited.
LEMMA TailFollows ==
    ASSUME NEW s \in Seq(Parts), NEW lost \in BOOLEAN, NEW t \in Texts, Follows(s, lost),
           Awaits(s, lost, t)
    PROVE  Follows(Append(s, <<t, "tail">>), lost)
  <1> DEFINE e == <<t, "tail">>
             d == Append(s, e)
  <1>1. e \in Parts /\ e[1] = t
    BY DEF Parts
  <1>2. /\ d \in Seq(Parts) /\ d # <<>> /\ Len(d) = Len(s) + 1 /\ d[Len(s) + 1] = e
        /\ \A i \in 1 .. Len(s) : d[i] = s[i]
    BY <1>1, AppendProperties
  <1>3. DOMAIN d = 1 .. Len(s) + 1 /\ DOMAIN s = 1 .. Len(s) /\ Len(s) \in Nat
    BY <1>2, LenProperties
  <1> HIDE DEF d
  <1>4. ASSUME NEW i \in 1 .. Len(s), d[i][2] = "tail"
        PROVE  IF i = 1 THEN lost ELSE d[i - 1] = <<d[i][1], "head">>
    BY <1>2, <1>3, <1>4 DEF Follows
  <1>5. IF Len(s) + 1 = 1 THEN lost ELSE d[Len(s)] = <<d[Len(s) + 1][1], "head">>
    <2>1. CASE s = <<>>
      BY <2>1 DEF Awaits
    <2>2. CASE s # <<>>
      <3>1. Len(s) \in 1 .. Len(s)
        BY <2>2, <1>3, EmptySeq
      <3> QED
        BY <1>1, <1>2, <2>2, <3>1 DEF Awaits
    <2> QED
      BY <2>1, <2>2
  <1>6. Follows(d, lost)
    <2> SUFFICES ASSUME NEW i \in 1 .. Len(s) + 1, d[i][2] = "tail"
                 PROVE  IF i = 1 THEN lost ELSE d[i - 1] = <<d[i][1], "head">>
      BY <1>3 DEF Follows
    <2>1. CASE i \in 1 .. Len(s)
      BY <1>4, <2>1
    <2>2. CASE i = Len(s) + 1
      <3>1. i - 1 = Len(s)
        BY <1>3, <2>2
      <3> QED
        BY <1>5, <2>2, <3>1
    <2> QED
      BY <1>3, <2>1, <2>2
  <1> QED
    BY <1>6 DEF d

\* What is left when the beginning of the stream is dropped.
LEMMA CutFollows ==
    ASSUME NEW s \in Seq(Parts), NEW lost \in BOOLEAN, NEW k \in 1 .. Len(s) + 1, Follows(s, lost)
    PROVE  LET d == SubSeq(s, k, Len(s)) IN
           /\ d \in Seq(Parts) /\ Len(d) = Len(s) - k + 1
           /\ \A i \in 1 .. Len(d) : d[i] = s[k + i - 1]
           /\ Follows(d, TRUE)
           /\ \A t : s # <<>> /\ Awaits(s, lost, t) => Awaits(d, TRUE, t)
  <1> DEFINE d == SubSeq(s, k, Len(s))
  <1>1. Len(s) \in Nat /\ DOMAIN s = 1 .. Len(s) /\ k \in Nat /\ k > 0 /\ k <= Len(s) + 1
    BY LenProperties
  <1>2. \A i \in k .. Len(s) : s[i] \in Parts
    BY <1>1, ElementOfSeq
  <1>3. /\ d \in Seq(Parts) /\ Len(d) = IF k <= Len(s) THEN Len(s) - k + 1 ELSE 0
        /\ \A i \in 1 .. Len(s) - k + 1 : d[i] = s[k + i - 1]
    BY <1>1, <1>2, SubSeqProperties
  <1>4. Len(d) = Len(s) - k + 1 /\ DOMAIN d = 1 .. Len(d)
    BY <1>1, <1>3, LenProperties
  <1> HIDE DEF d
  <1>5. Follows(d, TRUE)
    <2> SUFFICES ASSUME NEW i \in 1 .. Len(d), d[i][2] = "tail", i # 1
                 PROVE  d[i - 1] = <<d[i][1], "head">>
      BY <1>4 DEF Follows
    <2>1. d[i] = s[k + i - 1] /\ d[i - 1] = s[k + i - 2]
      BY <1>1, <1>3, <1>4
    <2>2. k + i - 1 \in 1 .. Len(s) /\ k + i - 1 # 1 /\ (k + i - 1) - 1 = k + i - 2
      BY <1>1, <1>4
    <2> QED
      BY <1>1, <2>1, <2>2 DEF Follows
  <1>6. ASSUME NEW t, s # <<>>, Awaits(s, lost, t)
        PROVE  Awaits(d, TRUE, t)
    <2>1. CASE d = <<>>
      BY <2>1 DEF Awaits
    <2>2. CASE d # <<>>
      <3>1. Len(d) \in 1 .. Len(d)
        BY <1>3, <2>2, EmptySeq
      <3>2. d[Len(d)] = s[Len(s)]
        BY <1>1, <1>3, <1>4, <3>1
      <3> QED
        BY <1>6, <2>2, <3>2 DEF Awaits
    <2> QED
      BY <2>1, <2>2
  <1> QED
    BY <1>3, <1>4, <1>5, <1>6 DEF d

\* After the last line no line ends, and the line has a text.
LEMMA LastLineFound ==
    ASSUME NEW s \in Seq(Parts), NEW lost \in BOOLEAN, Follows(s, lost), Ends(s) # {}
    PROVE  /\ Rest(s) \in Seq(Parts) /\ Len(Rest(s)) <= Len(s) /\ Ends(Rest(s)) = {}
           /\ \A t : Awaits(s, lost, t) => Awaits(Rest(s), FALSE, t)
           /\ Head(LastLine(s)) \in Parts
  <1> DEFINE to == CHOOSE i \in Ends(s) : \A j \in Ends(s) : j <= i
             from == {0} \cup {i \in Ends(s) : i < to}
             before == CHOOSE i \in from : \A j \in from : j <= i
  <1>1. Len(s) \in Nat /\ DOMAIN s = 1 .. Len(s)
    BY LenProperties
  <1>2. Ends(s) \in SUBSET (1 .. Len(s)) /\ Ends(s) \in SUBSET (0 .. Len(s))
    BY <1>1 DEF Ends
  <1>3. \E m \in Ends(s) : \A j \in Ends(s) : j <= m
    BY <1>1, <1>2, Greatest
  <1>4. to \in Ends(s) /\ \A j \in Ends(s) : j <= to
    BY <1>3
  <1>5. Rest(s) = SubSeq(s, to + 1, Len(s)) /\ LastLine(s) = SubSeq(s, before + 1, to)
    BY DEF Rest, LastLine
  <1> HIDE DEF to
  <1>6. to \in 1 .. Len(s) /\ to + 1 \in 1 .. Len(s) + 1 /\ s[to][2] = "tail"
    BY <1>1, <1>2, <1>4 DEF Ends
  <1>7. from \in SUBSET (0 .. Len(s)) /\ from # {}
    BY <1>1, <1>2
  <1>8. \E m \in from : \A j \in from : j <= m
    BY <1>1, <1>7, Greatest
  <1>9. before \in from
    BY <1>8
  <1> HIDE DEF before
  <1>10. before + 1 \in 1 .. Len(s) /\ to \in before + 1 .. Len(s)
    BY <1>1, <1>2, <1>6, <1>9
  <1>11. Head(LastLine(s)) \in Parts
    BY <1>5, <1>10, HeadTailOfSubSeq, ElementOfSeq
  <1> DEFINE d == SubSeq(s, to + 1, Len(s))
  <1>12. /\ d \in Seq(Parts) /\ Len(d) = Len(s) - (to + 1) + 1
         /\ \A i \in 1 .. Len(d) : d[i] = s[(to + 1) + i - 1]
    BY <1>6, CutFollows
  <1> HIDE DEF d
  <1>13. DOMAIN d = 1 .. Len(d) /\ Len(d) <= Len(s) /\ Len(d) \in Nat
    BY <1>1, <1>6, <1>12, LenProperties
  <1>14. Ends(d) = {}
    <2> SUFFICES ASSUME NEW i \in 1 .. Len(d), d[i][2] = "tail" PROVE FALSE
      BY <1>13 DEF Ends
    <2>1. d[i] = s[to + i] /\ to + i \in 1 .. Len(s) /\ to + i > to
      BY <1>1, <1>6, <1>12
    <2>2. to + i \in Ends(s)
      BY <1>1, <2>1 DEF Ends
    <2> QED
      BY <1>4, <2>1, <2>2, <1>6
  <1>15. ASSUME NEW t, Awaits(s, lost, t) PROVE Awaits(d, FALSE, t)
    <2>1. s # <<>>
      BY <1>6
    <2>2. s[Len(s)] = <<t, "head">>
      BY <1>15, <2>1 DEF Awaits
    <2>3. to # Len(s)
      BY <1>6, <2>2
    <2>4. Len(d) \in 1 .. Len(d) /\ (to + 1) + Len(d) - 1 = Len(s)
      BY <1>1, <1>6, <1>12, <1>13, <2>3
    <2>5. d[Len(d)] = s[Len(s)] /\ d # <<>>
      BY <1>12, <2>4
    <2> QED
      BY <2>2, <2>5 DEF Awaits
  <1>16. Rest(s) = d
    BY <1>5 DEF d
  <1> QED
    BY <1>11, <1>12, <1>13, <1>14, <1>15, <1>16
-----------------------------------------------------------------------------
(* Pictures *)

\* The period of a block is a length, and as the key has it.
LEMMA PeriodType ==
    ASSUME NEW text \in Nat, NEW c, c.cap \in Nat, c.sep \in Nat
    PROVE  Period(text, c) \in Nat
  BY DEF Period

\* What is drawn for a key is a picture.
LEMMA DrawnType ==
    ASSUME NEW key \in Keys, NEW colour \in Colours, NEW x \in Spots
    PROVE  Drawn(key, colour, x) \in Pictures /\ Drawn(key, colour, x) # None
  <1>1. /\ key.text \in Nat /\ key.offset \in Nat /\ key.cap \in Nat /\ key.sep \in Nat
        /\ key.width \in Widths
    <2>1. /\ key.text \in Texts \cup {0} /\ key.offset \in Nat /\ key.cap \in Caps
          /\ key.sep \in Separators /\ key.width \in Widths
      BY DEF Keys
    <2>2. Texts \cup {0} \subseteq Nat /\ Caps \subseteq Nat /\ Separators \subseteq Nat
      BY LengthAssumption
    <2> QED
      BY <2>1, <2>2
  <1> DEFINE p == Period(key.text, key)
  <1>2. p \in Nat
    BY <1>1, PeriodType
  <1>3. Window(key, key) \in Seq(Nat)
    <2>1. CASE p = 0
      <3>1. Window(key, key) = [i \in 1 .. key.text |-> i]
        BY <2>1 DEF Window
      <3>2. [i \in 1 .. key.text |-> i] \in Seq(Nat)
        BY <1>1
      <3> QED
        BY <3>1, <3>2
    <2>2. CASE p # 0
      <3> HIDE DEF p
      <3>1. \A i \in 1 .. key.cap : (key.offset + i - 1) % p \in Nat
        <4> SUFFICES ASSUME NEW i \in 1 .. key.cap PROVE (key.offset + i - 1) % p \in Nat
          OBVIOUS
        <4> DEFINE a == key.offset + i - 1
        <4>1. a \in Nat
          BY <1>1
        <4> HIDE DEF a
        <4>2. a % p \in Nat
          BY <1>2, <2>2, <4>1
        <4> QED
          BY <4>2 DEF a
      <3>2. [i \in 1 .. key.cap |-> (key.offset + i - 1) % p] \in Seq(Nat)
        BY <1>1, <3>1
      <3>3. Window(key, key) = [i \in 1 .. key.cap |-> (key.offset + i - 1) % p]
        BY <2>2 DEF Window, p
      <3> QED
        BY <3>2, <3>3
    <2> QED
      BY <2>1, <2>2
  <1>4. Drawn(key, colour, x) \in Pictures
    BY <1>1, <1>3 DEF Drawn, Pictures
  <1>5. None \notin Pictures
    BY NameAssumption DEF Pictures
  <1> QED
    BY <1>4, <1>5

\* A fresh picture is the one of the fresh key.
LEMMA PictureIsDrawn ==
    ASSUME NEW o \in Outputs, NEW b \in Blocks, NEW c \in Configs, NEW s \in Outs
    PROVE  /\ Key(o, b, c, s) \in Keys /\ Key(o, b, c, s).width = s[o].width
           /\ Picture(o, b, c, s) = Drawn(Key(o, b, c, s), c.colour, s[o].x)
           /\ c.colour \in Colours /\ s[o].x \in Spots
  <1> DEFINE k == Key(o, b, c, s)
  <1>1. /\ k \in Keys /\ k.width = s[o].width /\ k.text = b.text /\ k.offset = b.offset
        /\ k.cap = c.cap /\ k.sep = c.sep /\ c.colour \in Colours /\ s[o].x \in Spots
    BY DEF Key, Keys, Blocks, Configs, Outs
  <1> HIDE DEF k
  <1>2. Window(k, k) = Window(b, c)
    <2>1. Period(k.text, k) = Period(b.text, c)
      BY <1>1 DEF Period
    <2> QED
      BY <1>1, <2>1 DEF Window
  <1>3. Picture(o, b, c, s) = Drawn(k, c.colour, s[o].x)
    BY <1>1, <1>2 DEF Picture, Drawn
  <1> QED
    BY <1>1, <1>3 DEF k
-----------------------------------------------------------------------------
(* A paint, and the answer about the windows *)

\* A refresh leaves a bar that is as sound, and does not ask the windows.
LEMMA RefreshOk ==
    ASSUME NEW o \in Outputs, NEW b \in Blocks, NEW c \in Configs, NEW s \in Outs, NEW V,
           NEW r \in OneBar, PaintedOk(r, c.colour, s[o]), HomeOk(r, s[o], o, V)
    PROVE  LET d == Refresh(o, b, c, s, r) IN
           d \in OneBar /\ PaintedOk(d, c.colour, s[o]) /\ HomeOk(d, s[o], o, V)
           /\ d.obscured = r.obscured
  <1> DEFINE k == Key(o, b, c, s)
             pic == Picture(o, b, c, s)
             d == Refresh(o, b, c, s, r)
  <1>1. /\ k \in Keys /\ k.width = s[o].width /\ pic = Drawn(k, c.colour, s[o].x)
        /\ c.colour \in Colours /\ s[o].x \in Spots
    BY PictureIsDrawn
  <1>2. pic \in Pictures /\ pic # None /\ pic.x = s[o].x
    BY <1>1, DrawnType DEF Drawn
  <1>3. d = IF ~s[o].lit THEN r
            ELSE IF r.pic # None /\ r.key = k THEN [r EXCEPT !.shown = ~r.obscured]
            ELSE [r EXCEPT !.pic = pic, !.key = k, !.shown = ~r.obscured]
    BY DEF Refresh
  <1> SUFFICES d \in OneBar /\ PaintedOk(d, c.colour, s[o]) /\ HomeOk(d, s[o], o, V)
               /\ d.obscured = r.obscured
    OBVIOUS
  <1> HIDE DEF k, pic, d
  <1>4. CASE ~s[o].lit
    BY <1>3, <1>4
  <1>5. CASE s[o].lit /\ r.pic # None /\ r.key = k
    <2>1. s[o].wanted
      BY <1>5 DEF HomeOk, Outs
    <2>2. d = [r EXCEPT !.shown = ~r.obscured]
      BY <1>3, <1>5
    <2>3. /\ d \in OneBar /\ d.pic = r.pic /\ d.key = r.key /\ d.obscured = r.obscured
          /\ d.shown = ~r.obscured
      BY <2>2 DEF OneBar
    <2>4. PaintedOk(d, c.colour, s[o])
      BY <2>3 DEF PaintedOk
    <2>5. HomeOk(d, s[o], o, V)
      <3>1. d.shown => ~d.obscured
        BY <2>3
      <3> QED
        BY <1>5, <2>1, <2>3, <3>1 DEF HomeOk
    <2> QED
      BY <2>3, <2>4, <2>5
  <1>6. CASE s[o].lit /\ ~(r.pic # None /\ r.key = k)
    <2>1. s[o].wanted
      BY <1>6 DEF HomeOk, Outs
    <2>2. d = [r EXCEPT !.pic = pic, !.key = k, !.shown = ~r.obscured]
      BY <1>3, <1>6
    <2>3. /\ d \in OneBar /\ d.pic = pic /\ d.key = k /\ d.obscured = r.obscured
          /\ d.shown = ~r.obscured
      BY <1>1, <1>2, <2>2 DEF OneBar
    <2>4. PaintedOk(d, c.colour, s[o])
      BY <1>1, <1>2, <2>3 DEF PaintedOk
    <2>5. HomeOk(d, s[o], o, V)
      <3>1. d.shown => ~d.obscured
        BY <2>3
      <3> QED
        BY <1>2, <1>6, <2>1, <2>3, <3>1 DEF HomeOk
    <2> QED
      BY <2>3, <2>4, <2>5
  <1> QED
    BY <1>4, <1>5, <1>6

\* All bars painted for a block.
LEMMA AllRefreshed ==
    ASSUME BarTypes, Painted, Covered, NEW b \in Blocks, bar' = RefreshAll(b, config),
           config' = config, out' = out, view' = view, locked' = locked
    PROVE  bar' \in [Outputs -> OneBar] /\ Painted' /\ Covered'
  <1>1. ASSUME NEW o \in Outputs
        PROVE  LET d == bar'[o] IN
               d \in OneBar /\ PaintedOk(d, config.colour, out[o]) /\ HomeOk(d, out[o], o, view)
               /\ d.obscured = bar[o].obscured
    <2>1. bar'[o] = Refresh(o, b, config, out, bar[o])
      BY DEF RefreshAll
    <2>2. /\ bar[o] \in OneBar /\ config \in Configs /\ out \in Outs
          /\ PaintedOk(bar[o], config.colour, out[o]) /\ HomeOk(bar[o], out[o], o, view)
      BY DEF BarTypes, Painted, Covered
    <2> QED
      BY <2>1, <2>2, RefreshOk
  <1>2. bar' \in [Outputs -> OneBar]
    BY <1>1 DEF RefreshAll
  <1>3. Painted'
    BY <1>1 DEF Painted
  <1>4. Covered'
    BY <1>1 DEF Covered, CoverOk
  <1> QED
    BY <1>2, <1>3, <1>4

\* One bar painted, because its output has changed.
LEMMA OneRefreshed ==
    ASSUME BarTypes, Covered, out' \in Outs, NEW o \in Outputs,
           bar' = [bar EXCEPT ![o] = Refresh(o, source.block, config, out', @)],
           config' = config, view' = view, locked' = locked,
           \A p \in Outputs \ {o} : out'[p] = out[p],
           Painted, PaintedOk(bar[o], config.colour, out'[o]), HomeOk(bar[o], out'[o], o, view)
    PROVE  bar' \in [Outputs -> OneBar] /\ Painted' /\ Covered'
  <1> DEFINE d == Refresh(o, source.block, config, out', bar[o])
  <1>1. bar[o] \in OneBar /\ config \in Configs /\ source.block \in Blocks
    BY DEF BarTypes, Sources
  <1>2. d \in OneBar /\ PaintedOk(d, config.colour, out'[o]) /\ HomeOk(d, out'[o], o, view)
        /\ d.obscured = bar[o].obscured
    BY <1>1, RefreshOk
  <1>3. bar' = [bar EXCEPT ![o] = d] /\ bar \in [Outputs -> OneBar]
    BY DEF BarTypes
  <1> HIDE DEF d
  <1>4. /\ bar' \in [Outputs -> OneBar] /\ bar'[o] = d
        /\ \A p \in Outputs \ {o} : bar'[p] = bar[p]
    BY <1>2, <1>3
  <1>5. Painted'
    BY <1>2, <1>4 DEF Painted
  <1>6. Covered'
    BY <1>2, <1>4 DEF Covered, CoverOk
  <1> QED
    BY <1>4, <1>5, <1>6

\* The answer is the one the windows give, and the picture is left alone.
LEMMA UncoverOk ==
    ASSUME NEW o \in Outputs, NEW V, NEW r \in OneBar, NEW s,
           r.shown => s.wanted /\ ~r.obscured /\ r.pic # None,
           ~s.wanted => ~s.lit /\ ~r.obscured /\ \A v \in Views : V[v].on # o
    PROVE  LET d == Uncover(o, V, r) IN
           /\ d \in OneBar /\ d.pic = r.pic /\ d.key = r.key
           /\ HomeOk(d, s, o, V) /\ CoverOk(d, o, V)
  <1> DEFINE now == Obscured(o, V)
             d == Uncover(o, V, r)
  <1>1. now \in BOOLEAN
    BY DEF Obscured
  <1>2. ~s.wanted => ~now
    BY DEF Obscured
  <1>3. d = IF now = r.obscured THEN r
            ELSE [r EXCEPT !.obscured = now, !.shown = r.pic # None /\ ~now]
    BY DEF Uncover
  <1>4. r.obscured \in BOOLEAN /\ r.shown \in BOOLEAN
    BY DEF OneBar
  <1>5. d \in OneBar /\ d.pic = r.pic /\ d.key = r.key /\ d.obscured = now
        /\ (d.shown => ~now /\ r.pic # None /\ s.wanted)
    <2> HIDE DEF now, d
    <2>1. CASE now = r.obscured
      BY <1>1, <1>3, <1>4, <2>1
    <2>2. CASE now # r.obscured
      <3>1. d = [r EXCEPT !.obscured = now, !.shown = r.pic # None /\ ~now]
        BY <1>3, <2>2
      <3>2. d \in OneBar /\ d.pic = r.pic /\ d.key = r.key /\ d.obscured = now
            /\ d.shown = (r.pic # None /\ ~now)
        BY <1>1, <3>1 DEF OneBar
      <3> QED
        BY <1>1, <1>2, <1>4, <2>2, <3>2
    <2> QED
      BY <2>1, <2>2
  <1> HIDE DEF d
  <1>6. HomeOk(d, s, o, V)
    BY <1>2, <1>5 DEF HomeOk
  <1>7. CoverOk(d, o, V)
    BY <1>5 DEF CoverOk
  <1> QED
    BY <1>5, <1>6, <1>7 DEF d
-----------------------------------------------------------------------------
(* The helper, the pipe and the timer *)

\* The stream and what is known of it.
LEMMA StreamType ==
    ASSUME BarTypes
    PROVE  /\ source.buf \in Seq(Parts) /\ pipe \in Seq(Parts) /\ source.buf \o pipe \in Seq(Parts)
           /\ Len(source.buf \o pipe) = Len(source.buf) + Len(pipe)
           /\ source.lost \in BOOLEAN /\ helper.half \in Texts \cup {None}
           /\ source.block \in Blocks /\ config \in Configs /\ source.seen \in Configs
  <1>1. /\ source.buf \in Seq(Parts) /\ pipe \in Seq(Parts) /\ source.lost \in BOOLEAN
        /\ helper.half \in Texts \cup {None} /\ source.block \in Blocks /\ config \in Configs
        /\ source.seen \in Configs
    BY DEF BarTypes, Sources, Helpers
  <1> QED
    BY <1>1, ConcatProperties

\* Windows and pictures are as they were.
LEMMA DesktopSame ==
    ASSUME BarOk, config' = config, out' = out, bar' = bar, view' = view, locked' = locked
    PROVE  Painted' /\ Covered'
  BY DEF BarOk, Painted, Covered

\* The pipe is as it was.
LEMMA PipeSame ==
    ASSUME BarOk, helper' = helper, pipe' = pipe, source' = source
    PROVE  Flowing' /\ Ticking'
  BY DEF BarOk, Flowing, Ticking

\* The helper writes the first half of a line.
LEMMA WriteHeadOk == ASSUME BarOk, NEW t \in Texts, WriteHead(t) PROVE BarOk'
  <1> DEFINE e == <<t, "head">>
             s == source.buf \o pipe
  <1>1. BarTypes
    BY DEF BarOk
  <1>2. /\ e \in Parts /\ s \in Seq(Parts) /\ source.lost \in BOOLEAN
        /\ source.buf \in Seq(Parts) /\ pipe \in Seq(Parts)
    BY <1>1, StreamType DEF Parts
  <1>3. pipe' = Append(pipe, e) /\ source' = source /\ helper' = [helper EXCEPT !.half = t]
    BY DEF WriteHead
  <1>4. source.buf \o pipe' = Append(s, e) /\ pipe' \in Seq(Parts)
    BY <1>2, <1>3, Written
  <1>5. helper'.state = "runs" /\ helper'.half = t /\ helper' \in Helpers
    <2>1. helper \in Helpers /\ helper.state = "runs"
      BY <1>1 DEF BarTypes, WriteHead
    <2> QED
      BY <1>3, <2>1 DEF Helpers
  <1>6. Follows(s, source.lost)
    BY DEF BarOk, Flowing
  <1> HIDE DEF e, s
  <1>7. Follows(Append(s, e), source.lost) /\ Awaits(Append(s, e), source.lost, t)
    BY <1>2, <1>6, HeadFollows DEF e
  <1>8. Flowing'
    BY <1>3, <1>4, <1>5, <1>7 DEF BarOk, Flowing
  <1>9. Ticking' /\ Painted' /\ Covered'
    BY <1>3, DesktopSame DEF BarOk, Ticking, WriteHead
  <1>10. BarTypes'
    BY <1>1, <1>3, <1>4, <1>5 DEF BarTypes, WriteHead
  <1> QED
    BY <1>8, <1>9, <1>10 DEF BarOk

\* The helper writes the second half.
LEMMA WriteTailOk == ASSUME BarOk, WriteTail PROVE BarOk'
  <1> DEFINE t == helper.half
             e == <<t, "tail">>
             s == source.buf \o pipe
  <1>1. BarTypes
    BY DEF BarOk
  <1>2. t \in Texts /\ t # None
    BY <1>1, StreamType DEF WriteTail
  <1>3. /\ e \in Parts /\ s \in Seq(Parts) /\ source.lost \in BOOLEAN
        /\ source.buf \in Seq(Parts) /\ pipe \in Seq(Parts)
    BY <1>1, <1>2, StreamType DEF Parts
  <1>4. pipe' = Append(pipe, e) /\ source' = source /\ helper' = [helper EXCEPT !.half = None]
    BY DEF WriteTail
  <1>5. source.buf \o pipe' = Append(s, e) /\ pipe' \in Seq(Parts)
    BY <1>3, <1>4, Written
  <1>6. helper'.half = None /\ helper' \in Helpers
    <2>1. helper \in Helpers
      BY <1>1 DEF BarTypes
    <2> QED
      BY <1>4, <2>1 DEF Helpers
  <1>7. Follows(s, source.lost) /\ Awaits(s, source.lost, t)
    BY <1>2 DEF BarOk, Flowing
  <1> HIDE DEF t, e, s
  <1>8. Follows(Append(s, e), source.lost)
    BY <1>2, <1>3, <1>7, TailFollows DEF e
  <1>9. Flowing'
    BY <1>4, <1>5, <1>6, <1>8 DEF BarOk, Flowing
  <1>10. Ticking' /\ Painted' /\ Covered'
    BY <1>4, DesktopSame DEF BarOk, Ticking, WriteTail
  <1>11. BarTypes'
    BY <1>1, <1>4, <1>5, <1>6 DEF BarTypes, WriteTail
  <1> QED
    BY <1>9, <1>10, <1>11 DEF BarOk

\* A dead helper leaves half a line at most.
LEMMA HelperDiesOk == ASSUME BarOk, HelperDies PROVE BarOk'
  <1>1. helper' = [state |-> "gone", half |-> None] /\ pipe' = pipe /\ source' = source
    BY DEF HelperDies
  <1>2. Flowing'
    BY <1>1 DEF BarOk, Flowing
  <1>3. Ticking' /\ Painted' /\ Covered'
    BY <1>1, DesktopSame DEF BarOk, Ticking, HelperDies
  <1>4. BarTypes'
    BY <1>1 DEF BarOk, BarTypes, Helpers, HelperDies
  <1> QED
    BY <1>2, <1>3, <1>4 DEF BarOk

\* The hangup drops the rest of the stream.
LEMMA HangupOk == ASSUME BarOk, Hangup PROVE BarOk'
  <1>1. /\ source' = [source EXCEPT !.open = FALSE] /\ pipe' = <<>> /\ helper' = helper
        /\ helper.state = "gone"
    BY DEF Hangup
  <1>2. /\ source' \in Sources /\ source'.buf = source.buf /\ source'.lost = source.lost
        /\ source'.armed = source.armed /\ source'.pending = source.pending
        /\ source'.seen = source.seen /\ source'.block = source.block
    <2>1. source \in Sources
      BY DEF BarOk, BarTypes
    <2> QED
      BY <1>1, <2>1 DEF Sources
  <1>3. source.buf \in Seq(Parts) /\ pipe \in Seq(Parts)
    BY StreamType DEF BarOk
  <1>4. source.buf \o <<>> = source.buf /\ DOMAIN source.buf = 1 .. Len(source.buf)
    BY <1>3, ConcatEmptySeq, LenProperties
  <1>5. Follows(source.buf, source.lost)
    <2> SUFFICES ASSUME NEW i \in 1 .. Len(source.buf), source.buf[i][2] = "tail"
                 PROVE  IF i = 1 THEN source.lost
                        ELSE source.buf[i - 1] = <<source.buf[i][1], "head">>
      BY <1>4 DEF Follows
    <2>1. i \in Ends(source.buf)
      BY <1>4 DEF Ends
    <2> QED
      BY <2>1 DEF BarOk, Flowing
  <1>6. helper.half = None
    BY <1>1 DEF BarOk, Flowing
  <1>7. Flowing'
    BY <1>1, <1>2, <1>4, <1>5, <1>6 DEF BarOk, Flowing
  <1>8. Ticking' /\ Painted' /\ Covered'
    BY <1>2, DesktopSame DEF BarOk, Ticking, Hangup
  <1>9. BarTypes'
    BY <1>1, <1>2, EmptySeq DEF BarOk, BarTypes, Hangup
  <1> QED
    BY <1>7, <1>8, <1>9 DEF BarOk

\* The timer is set as the configuration has it.
LEMMA TimerSet ==
    ASSUME NEW s \in Sources, s.armed <=> s.pending, NEW c \in Configs
    PROVE  LET d == TimerAfter(s, c) IN
           /\ d \in Sources /\ d.buf = s.buf /\ d.lost = s.lost /\ d.block = s.block /\ d.seen = c
           /\ d.open = s.open
           /\ d.armed <=> d.pending
           /\ d.armed <=> Period(d.block.text, d.seen) > 0
  <1> DEFINE on == Period(s.block.text, c) > 0
             d == TimerAfter(s, c)
  <1>1. s.armed \in BOOLEAN /\ s.pending \in BOOLEAN
    BY DEF Sources
  <1>2. CASE on
    <2>1. d = [s EXCEPT !.armed = TRUE, !.pending = s.pending \/ ~s.armed, !.seen = c]
      BY <1>2 DEF TimerAfter
    <2>2. d = [s EXCEPT !.armed = TRUE, !.pending = TRUE, !.seen = c]
      <3>1. (s.pending \/ ~s.armed) = TRUE
        BY <1>1
      <3> HIDE DEF d
      <3> QED
        BY <2>1, <3>1
    <2> HIDE DEF d
    <2>3. /\ d \in Sources /\ d.buf = s.buf /\ d.lost = s.lost /\ d.block = s.block /\ d.seen = c
          /\ d.open = s.open /\ d.armed = TRUE /\ d.pending = TRUE
      BY <2>2 DEF Sources
    <2> QED
      BY <1>2, <2>3 DEF d
  <1>3. CASE ~on
    <2>1. d = [s EXCEPT !.armed = FALSE, !.pending = s.pending /\ ~s.armed, !.seen = c]
      BY <1>3 DEF TimerAfter
    <2>2. d = [s EXCEPT !.armed = FALSE, !.pending = FALSE, !.seen = c]
      <3>1. (s.pending /\ ~s.armed) = FALSE
        BY <1>1
      <3> HIDE DEF d
      <3> QED
        BY <2>1, <3>1
    <2> HIDE DEF d
    <2>3. /\ d \in Sources /\ d.buf = s.buf /\ d.lost = s.lost /\ d.block = s.block /\ d.seen = c
          /\ d.open = s.open /\ d.armed = FALSE /\ d.pending = FALSE
      BY <2>2 DEF Sources
    <2> QED
      BY <1>3, <2>3 DEF d
  <1> QED
    BY <1>2, <1>3
-----------------------------------------------------------------------------
(* What the compositor reads *)

\* The stream is longer than the buffer: what is dropped may end within a line.
LEMMA OverflowOk ==
    ASSUME BarOk, Readable, Len(source.buf \o pipe) > MaxLine
    PROVE  BarOk'
  <1> DEFINE s == source.buf \o pipe
             d == SubSeq(s, MaxLine + 2, Len(s))
  <1>1. /\ s \in Seq(Parts) /\ source.lost \in BOOLEAN /\ Len(s) \in Nat /\ MaxLine \in Nat
    BY StreamType, LenProperties, LengthAssumption DEF BarOk
  <1>2. /\ source' = [source EXCEPT !.buf = <<>>, !.lost = TRUE] /\ pipe' = d
        /\ bar' = bar /\ helper' = helper
    BY DEF Readable
  <1>3. /\ source' \in Sources /\ source'.buf = <<>> /\ source'.lost = TRUE
        /\ source'.armed = source.armed /\ source'.pending = source.pending
        /\ source'.seen = source.seen /\ source'.block = source.block
    <2>1. source \in Sources /\ <<>> \in Seq(Parts)
      BY EmptySeq DEF BarOk, BarTypes
    <2> QED
      BY <1>2, <2>1 DEF Sources
  <1>4. Follows(s, source.lost) /\ s # <<>>
    BY <1>1 DEF BarOk, Flowing
  <1>5. MaxLine + 2 \in 1 .. Len(s) + 1
    BY <1>1
  <1> HIDE DEF s
  <1>6. /\ d \in Seq(Parts) /\ Follows(d, TRUE)
        /\ \A t : Awaits(s, source.lost, t) => Awaits(d, TRUE, t)
    BY <1>1, <1>4, <1>5, CutFollows
  <1> HIDE DEF d
  <1>7. <<>> \o d = d
    BY <1>6, ConcatEmptySeq
  <1>8. Ends(<<>>) = {} /\ Len(<<>>) <= MaxLine
    <2>1. DOMAIN <<>> = {}
      OBVIOUS
    <2>2. Len(<<>>) = 0
      OBVIOUS
    <2> QED
      BY <1>1, <2>1, <2>2 DEF Ends
  <1>9. Flowing'
    BY <1>2, <1>3, <1>6, <1>7, <1>8 DEF BarOk, Flowing, s
  <1>10. Ticking' /\ Painted' /\ Covered'
    BY <1>2, <1>3, DesktopSame DEF BarOk, Ticking, Readable
  <1>11. BarTypes'
    BY <1>2, <1>3, <1>6 DEF BarOk, BarTypes, Readable
  <1> QED
    BY <1>9, <1>10, <1>11 DEF BarOk

\* No line ends in what was read.
LEMMA PartlyReadOk ==
    ASSUME BarOk, Readable, ~(Len(source.buf \o pipe) > MaxLine), Ends(source.buf \o pipe) = {}
    PROVE  BarOk'
  <1> DEFINE s == source.buf \o pipe
  <1>1. /\ s \in Seq(Parts) /\ Len(s) \in Nat /\ MaxLine \in Nat
    BY StreamType, LenProperties, LengthAssumption DEF BarOk
  <1>2. /\ source' = [source EXCEPT !.buf = s] /\ pipe' = <<>> /\ bar' = bar /\ helper' = helper
    BY DEF Readable
  <1>3. /\ source' \in Sources /\ source'.buf = s /\ source'.lost = source.lost
        /\ source'.armed = source.armed /\ source'.pending = source.pending
        /\ source'.seen = source.seen /\ source'.block = source.block
    <2>1. source \in Sources
      BY DEF BarOk, BarTypes
    <2> HIDE DEF s
    <2> QED
      BY <1>1, <1>2, <2>1 DEF Sources
  <1>4. s \o <<>> = s
    BY <1>1, ConcatEmptySeq
  <1>5. Flowing'
    BY <1>1, <1>2, <1>3, <1>4 DEF BarOk, Flowing
  <1>6. Ticking' /\ Painted' /\ Covered'
    BY <1>2, <1>3, DesktopSame DEF BarOk, Ticking, Readable
  <1>7. BarTypes'
    BY <1>2, <1>3, EmptySeq DEF BarOk, BarTypes, Readable
  <1> QED
    BY <1>5, <1>6, <1>7 DEF BarOk

\* A line is read to its end, whatever was lost before.
LEMMA LineReadOk ==
    ASSUME BarOk, Readable, ~(Len(source.buf \o pipe) > MaxLine), Ends(source.buf \o pipe) # {}
    PROVE  BarOk'
  <1> DEFINE s == source.buf \o pipe
             b == Parsed(source.block, LastLine(s))
             lost == source.lost /\ Head(LastLine(s))[2] = "tail"
             r == [source EXCEPT !.buf = Rest(s), !.block = b, !.lost = lost]
  <1>1. /\ s \in Seq(Parts) /\ Len(s) \in Nat /\ MaxLine \in Nat /\ source.lost \in BOOLEAN
        /\ source.block \in Blocks /\ config \in Configs
    BY StreamType, LenProperties, LengthAssumption DEF BarOk
  <1>2. /\ source' = TimerAfter(r, config) /\ bar' = RefreshAll(b, config)
        /\ pipe' = <<>> /\ helper' = helper
    BY DEF Readable
  <1>3. Follows(s, source.lost) /\ Ends(s) # {} /\ Len(s) <= MaxLine
    BY <1>1 DEF BarOk, Flowing
  <1>4. /\ Rest(s) \in Seq(Parts) /\ Len(Rest(s)) <= Len(s) /\ Ends(Rest(s)) = {}
        /\ \A t : Awaits(s, source.lost, t) => Awaits(Rest(s), FALSE, t)
        /\ Head(LastLine(s)) \in Parts
    <2> HIDE DEF s
    <2> QED
      BY <1>1, <1>3, LastLineFound
  <1> DEFINE rest == Rest(s)
             head == Head(LastLine(s))
  <1>5. b \in Blocks /\ lost \in BOOLEAN
    <2>1. b = IF head[2] = "tail" THEN source.block
              ELSE [text |-> head[1],
                    offset |-> IF head[1] = source.block.text THEN source.block.offset ELSE 0]
      BY DEF Parsed
    <2>2. head \in Parts /\ head[1] \in Texts
      BY <1>4 DEF Parts
    <2> HIDE DEF head, b
    <2>3. b \in Blocks
      BY <1>1, <2>1, <2>2 DEF Blocks
    <2>4. lost \in BOOLEAN
      BY <1>1
    <2> QED
      BY <2>3, <2>4
  <1> HIDE DEF b, lost, rest, head, s
  <1>6. /\ r \in Sources /\ r.buf = rest /\ r.block = b /\ r.lost = lost
        /\ (r.armed <=> r.pending)
    <2>1. source \in Sources /\ (source.armed <=> source.pending)
      BY DEF BarOk, BarTypes, Ticking
    <2>2. rest \in Seq(Parts)
      BY <1>4 DEF rest
    <2>3. r = [source EXCEPT !.buf = rest, !.block = b, !.lost = lost]
      BY DEF rest
    <2> HIDE DEF r
    <2> QED
      BY <1>5, <2>1, <2>2, <2>3 DEF Sources
  <1> HIDE DEF r
  <1>7. /\ source' \in Sources /\ source'.buf = rest /\ source'.lost = lost /\ source'.block = b
        /\ source'.seen = config
        /\ (source'.armed <=> source'.pending)
        /\ (source'.armed <=> Period(source'.block.text, source'.seen) > 0)
    BY <1>1, <1>2, <1>6, TimerSet
  <1>8. rest \o <<>> = rest /\ DOMAIN rest = 1 .. Len(rest)
    BY <1>4, ConcatEmptySeq, LenProperties DEF rest
  <1>9. Follows(rest, lost)
    <2> SUFFICES ASSUME NEW i \in 1 .. Len(rest), rest[i][2] = "tail"
                 PROVE  FALSE
      BY <1>8 DEF Follows
    <2>1. i \in Ends(rest)
      BY <1>8 DEF Ends
    <2> QED
      BY <1>4, <2>1 DEF rest
  <1>10. ASSUME helper'.half # None
         PROVE  helper'.state = "runs" /\ Awaits(rest, lost, helper'.half)
    <2>1. helper.half # None /\ helper'.half = helper.half /\ helper'.state = helper.state
      BY <1>2, <1>10
    <2>2. helper.state = "runs" /\ Awaits(s, source.lost, helper.half)
      BY <2>1 DEF BarOk, Flowing, s
    <2>3. Awaits(rest, FALSE, helper.half)
      BY <1>4, <2>2 DEF rest
    <2>4. Awaits(rest, lost, helper.half)
      BY <2>3 DEF Awaits
    <2> QED
      BY <2>1, <2>2, <2>4
  <1>11. Len(rest) <= MaxLine /\ Ends(rest) = {}
    <2>1. Len(rest) \in Nat
      BY <1>4, LenProperties DEF rest
    <2> QED
      BY <1>1, <1>3, <1>4, <2>1 DEF rest
  <1>12. Flowing'
    BY <1>2, <1>7, <1>8, <1>9, <1>10, <1>11 DEF Flowing
  <1>13. Ticking'
    BY <1>7 DEF Ticking
  <1>14. /\ config' = config /\ out' = out /\ view' = view /\ locked' = locked
    BY DEF Readable
  <1>15. bar' \in [Outputs -> OneBar] /\ Painted' /\ Covered'
    BY <1>2, <1>5, <1>14, AllRefreshed DEF BarOk
  <1>16. BarTypes'
    BY <1>2, <1>7, <1>14, <1>15, EmptySeq DEF BarOk, BarTypes
  <1> QED
    BY <1>12, <1>13, <1>15, <1>16 DEF BarOk

LEMMA ReadableOk == ASSUME BarOk, Readable PROVE BarOk'
  BY OverflowOk, PartlyReadOk, LineReadOk

\* The block moves on, or the timer finds that it need not.
LEMMA ScrollTickOk == ASSUME BarOk, ScrollTick PROVE BarOk'
  <1> DEFINE p == Period(source.block.text, config)
  <1>1. /\ source \in Sources /\ source.block \in Blocks /\ config \in Configs
        /\ source.pending /\ source.armed
    BY StreamType DEF BarOk, BarTypes, Ticking, ScrollTick
  <1>2. /\ source.block.text \in Nat /\ source.block.offset \in Nat /\ config.cap \in Nat
        /\ config.sep \in Nat
    <2>1. /\ source.block.text \in Texts \cup {0} /\ source.block.offset \in Nat
          /\ config.cap \in Caps /\ config.sep \in Separators
      BY <1>1 DEF Blocks, Configs
    <2>2. Texts \cup {0} \subseteq Nat /\ Caps \subseteq Nat /\ Separators \subseteq Nat
      BY LengthAssumption
    <2> QED
      BY <2>1, <2>2
  <1>3. p \in Nat
    BY <1>2, PeriodType
  <1>4. /\ helper' = helper /\ pipe' = pipe /\ config' = config /\ out' = out /\ view' = view
        /\ locked' = locked
    BY DEF ScrollTick
  <1>5. CASE p = 0
    <2>1. /\ source' = [source EXCEPT !.block.offset = 0, !.armed = FALSE, !.pending = FALSE,
                                      !.seen = config]
          /\ bar' = bar
      BY <1>5 DEF ScrollTick
    <2>2. /\ source' \in Sources /\ source'.buf = source.buf /\ source'.lost = source.lost
          /\ source'.armed = FALSE /\ source'.pending = FALSE /\ source'.seen = config
          /\ source'.block.text = source.block.text
      BY <1>1, <2>1 DEF Sources, Blocks
    <2>3. Flowing'
      BY <1>4, <2>2 DEF BarOk, Flowing
    <2>4. Ticking'
      BY <1>5, <2>2 DEF Ticking
    <2>5. Painted' /\ Covered'
      BY <1>4, <2>1, DesktopSame
    <2>6. BarTypes'
      BY <1>4, <2>1, <2>2 DEF BarOk, BarTypes
    <2> QED
      BY <2>3, <2>4, <2>5, <2>6 DEF BarOk
  <1>6. CASE p # 0
    <2> DEFINE n == (source.block.offset + 1) % p
               b == [source.block EXCEPT !.offset = n]
    <2>1. /\ source' = [source EXCEPT !.block = b] /\ bar' = RefreshAll(b, config)
      BY <1>6 DEF ScrollTick
    <2>2. n \in Nat
      <3> DEFINE a == source.block.offset + 1
      <3>1. a \in Nat
        BY <1>2
      <3> HIDE DEF a, p
      <3>2. a % p \in Nat
        BY <1>3, <1>6, <3>1
      <3> QED
        BY <3>2 DEF a
    <2> HIDE DEF n
    <2>3. b \in Blocks /\ b.text = source.block.text
      BY <1>1, <2>2 DEF Blocks
    <2> HIDE DEF b
    <2>4. /\ source' \in Sources /\ source'.buf = source.buf /\ source'.lost = source.lost
          /\ source'.armed = source.armed /\ source'.pending = source.pending
          /\ source'.seen = source.seen /\ source'.block.text = source.block.text
      BY <1>1, <2>1, <2>3 DEF Sources
    <2>5. Flowing' /\ Ticking'
      BY <1>4, <2>4 DEF BarOk, Flowing, Ticking
    <2>6. bar' \in [Outputs -> OneBar] /\ Painted' /\ Covered'
      BY <1>4, <2>1, <2>3, AllRefreshed DEF BarOk
    <2>7. BarTypes'
      BY <1>4, <2>4, <2>6 DEF BarOk, BarTypes
    <2> QED
      BY <2>5, <2>6, <2>7 DEF BarOk
  <1> QED
    BY <1>5, <1>6

\* A reload changes what the keys hold, and no colour.
LEMMA ReloadOk == ASSUME Races = {}, BarOk, Reload PROVE BarOk'
  <1>1. PICK cap \in Caps, sep \in Separators, colour \in Colours :
            /\ colour = config.colour
            /\ config' = [cap |-> cap, sep |-> sep, colour |-> colour]
    BY DEF Reload
  <1>2. config' \in Configs /\ config'.colour = config.colour
    BY <1>1 DEF Configs
  <1>3. /\ helper' = helper /\ pipe' = pipe /\ source' = source /\ out' = out /\ bar' = bar
        /\ view' = view /\ locked' = locked
    BY DEF Reload
  <1>4. Flowing' /\ Ticking'
    BY <1>3, PipeSame
  <1>5. Painted' /\ Covered'
    BY <1>2, <1>3 DEF BarOk, Painted, Covered
  <1>6. BarTypes'
    BY <1>2, <1>3 DEF BarOk, BarTypes
  <1> QED
    BY <1>4, <1>5, <1>6 DEF BarOk
-----------------------------------------------------------------------------
(* Outputs *)

\* The types of one output.
LEMMA OutType ==
    ASSUME NEW o \in Outputs, BarTypes
    PROVE  /\ bar[o] \in OneBar /\ out[o].x \in Spots /\ out[o].width \in Widths
           /\ out[o].lit \in BOOLEAN /\ out[o].wanted \in BOOLEAN
           /\ bar \in [Outputs -> OneBar] /\ out \in Outs
  BY DEF BarTypes, Outs

\* A change of place or size is painted at once if the output is lit.
LEMMA ResizeOk == ASSUME Races = {}, BarOk, NEW o \in Outputs, Resize(o) PROVE BarOk'
  <1>1. PICK x \in Spots, w \in Widths :
            /\ ~Displaced(bar[o], x, w)
            /\ out' = [out EXCEPT ![o].x = x, ![o].width = w]
    BY DEF Resize
  <1>2. BarTypes
    BY DEF BarOk
  <1>3. /\ out' \in Outs /\ out'[o].x = x /\ out'[o].width = w
        /\ out'[o].lit = out[o].lit /\ out'[o].wanted = out[o].wanted
        /\ \A p \in Outputs \ {o} : out'[p] = out[p]
    BY <1>1, <1>2 DEF BarTypes, Outs
  <1>4. PaintedOk(bar[o], config.colour, out'[o])
    BY <1>1, <1>3 DEF BarOk, Painted, PaintedOk, Displaced
  <1>5. HomeOk(bar[o], out'[o], o, view)
    BY <1>3 DEF BarOk, Covered, HomeOk
  <1>6. /\ helper' = helper /\ pipe' = pipe /\ source' = source /\ config' = config
        /\ view' = view /\ locked' = locked
        /\ bar' = [bar EXCEPT ![o] = Refresh(o, source.block, config, out', @)]
    BY DEF Resize
  <1>7. bar' \in [Outputs -> OneBar] /\ Painted' /\ Covered'
    BY <1>2, <1>3, <1>4, <1>5, <1>6, OneRefreshed DEF BarOk
  <1>8. Flowing' /\ Ticking'
    BY <1>6, PipeSame
  <1>9. BarTypes'
    BY <1>2, <1>3, <1>6, <1>7 DEF BarTypes
  <1> QED
    BY <1>7, <1>8, <1>9 DEF BarOk

\* Lighting the outputs of the desktop, or none.
LEMMA LightType ==
    ASSUME BarOk, NEW lit \in BOOLEAN, Light(lit)
    PROVE  /\ out' \in Outs
           /\ \A o \in Outputs : /\ out'[o].x = out[o].x /\ out'[o].width = out[o].width
                                 /\ out'[o].wanted = out[o].wanted
                                 /\ out'[o].lit = (lit /\ out[o].wanted)
  <1>1. out' = [o \in Outputs |-> [out[o] EXCEPT !.lit = lit /\ out[o].wanted]] /\ out \in Outs
    BY DEF Light, BarOk, BarTypes
  <1>2. ASSUME NEW o \in Outputs
        PROVE  LET d == [out[o] EXCEPT !.lit = lit /\ out[o].wanted] IN
               /\ d \in [x : Spots, width : Widths, lit : BOOLEAN, wanted : BOOLEAN]
               /\ d.x = out[o].x /\ d.width = out[o].width
               /\ d.wanted = out[o].wanted /\ d.lit = (lit /\ out[o].wanted)
    <2>1. out[o] \in [x : Spots, width : Widths, lit : BOOLEAN, wanted : BOOLEAN]
      BY <1>1 DEF Outs
    <2>2. (lit /\ out[o].wanted) \in BOOLEAN
      OBVIOUS
    <2> QED
      BY <2>1, <2>2
  <1> QED
    BY <1>1, <1>2 DEF Outs

\* The lock darkens the outputs or lights them: no picture changes.
LEMMA BlankOk == ASSUME BarOk, NEW lit \in BOOLEAN, Blank(lit) PROVE BarOk'
  <1>1. /\ helper' = helper /\ pipe' = pipe /\ source' = source /\ config' = config
        /\ bar' = bar /\ view' = view /\ locked' = locked /\ Light(lit)
    BY DEF Blank
  <1>2. /\ out' \in Outs
        /\ \A o \in Outputs : /\ out'[o].x = out[o].x /\ out'[o].width = out[o].width
                              /\ out'[o].wanted = out[o].wanted
                              /\ out'[o].lit = (lit /\ out[o].wanted)
    BY <1>1, LightType
  <1>3. Painted'
    BY <1>1, <1>2 DEF BarOk, Painted, PaintedOk
  <1>4. Covered'
    BY <1>1, <1>2 DEF BarOk, Covered, HomeOk, CoverOk
  <1>5. BarTypes'
    BY <1>1, <1>2 DEF BarOk, BarTypes
  <1>6. Flowing' /\ Ticking'
    BY <1>1, PipeSame
  <1> QED
    BY <1>3, <1>4, <1>5, <1>6 DEF BarOk

\* An output that leaves has nothing in front of its bar, and takes it with it.
LEMMA SwitchOffOk ==
    ASSUME Races = {}, BarOk, NEW o \in Outputs, NEW into \in Outputs, SwitchOff(o, into)
    PROVE  BarOk'
  <1>1. /\ into # o /\ out[into].wanted /\ ~bar[o].obscured /\ out[o].wanted
        /\ out' = [out EXCEPT ![o].wanted = FALSE, ![o].lit = FALSE]
        /\ view' = [v \in Views |-> IF view[v].on = o THEN [view[v] EXCEPT !.on = into, !.full = FALSE]
                                    ELSE view[v]]
        /\ bar' = [bar EXCEPT ![o].shown = FALSE]
        /\ helper' = helper /\ pipe' = pipe /\ source' = source /\ config' = config
        /\ locked' = locked
    BY DEF SwitchOff
  <1>2. bar \in [Outputs -> OneBar] /\ out \in Outs /\ view \in Windows
    BY DEF BarOk, BarTypes
  <1>3. /\ out' \in Outs /\ ~out'[o].wanted /\ ~out'[o].lit
        /\ out'[o].x = out[o].x /\ out'[o].width = out[o].width
        /\ \A p \in Outputs \ {o} : out'[p] = out[p]
    BY <1>1, <1>2 DEF Outs
  <1>4. /\ bar' \in [Outputs -> OneBar] /\ ~bar'[o].shown /\ ~bar'[o].obscured
        /\ bar'[o].pic = bar[o].pic /\ bar'[o].key = bar[o].key
        /\ \A p \in Outputs \ {o} : bar'[p] = bar[p]
    BY <1>1, <1>2 DEF OneBar
  <1>5. \A v \in Views : IF view[v].on = o THEN /\ view'[v].on = into /\ ~view'[v].full
                                                /\ view'[v].op = view[v].op
                                                /\ view'[v].hidden = view[v].hidden
                                                /\ view'[v] \in OneView
                         ELSE view'[v] = view[v]
    <2> SUFFICES ASSUME NEW v \in Views, view[v].on = o
                 PROVE  /\ view'[v].on = into /\ ~view'[v].full /\ view'[v].op = view[v].op
                        /\ view'[v].hidden = view[v].hidden /\ view'[v] \in OneView
      BY <1>1
    <2>1. view'[v] = [view[v] EXCEPT !.on = into, !.full = FALSE] /\ view[v] \in OneView
      BY <1>1, <1>2 DEF Windows
    <2> QED
      BY <2>1 DEF OneView
  <1>6. view' \in Windows
    <2>1. \A v \in Views : view'[v] \in OneView
      BY <1>2, <1>5 DEF Windows
    <2> QED
      BY <1>1, <2>1 DEF Windows
  <1>7. Painted'
    <2>1. ASSUME NEW p \in Outputs
          PROVE  PaintedOk(bar'[p], config.colour, out'[p])
      <3>1. PaintedOk(bar[p], config.colour, out[p])
        BY DEF BarOk, Painted
      <3>2. CASE p = o
        BY <1>3, <1>4, <3>1, <3>2 DEF PaintedOk
      <3>3. CASE p # o
        BY <1>3, <1>4, <3>1, <3>3
      <3> QED
        BY <3>2, <3>3
    <2> QED
      BY <1>1, <2>1 DEF Painted
  <1>8. Covered'
    <2>1. ASSUME NEW p \in Outputs
          PROVE  HomeOk(bar'[p], out'[p], p, view')
      <3>1. CASE p = o
        BY <1>1, <1>3, <1>4, <1>5, <3>1 DEF HomeOk
      <3>2. CASE p # o
        <4>1. HomeOk(bar[p], out[p], p, view) /\ bar'[p] = bar[p] /\ out'[p] = out[p]
          BY <1>3, <1>4, <3>2 DEF BarOk, Covered
        <4>2. ASSUME ~out[p].wanted, NEW v \in Views PROVE view'[v].on # p
          BY <1>1, <1>5, <4>1, <4>2 DEF HomeOk
        <4> QED
          BY <4>1, <4>2 DEF HomeOk
      <3> QED
        BY <3>1, <3>2
    <2>2. ASSUME NEW p \in Outputs, ~locked.up
          PROVE  CoverOk(bar'[p], p, view')
      <3>1. CoverOk(bar[p], p, view)
        BY <2>2 DEF BarOk, Covered
      <3>2. CASE p = o
        <4>1. ~Obscured(p, view')
          BY <1>1, <1>5, <3>2 DEF Obscured
        <4> QED
          BY <1>4, <3>2, <4>1 DEF CoverOk
      <3>3. CASE p # o
        <4>1. bar'[p] = bar[p]
          BY <1>4, <3>3
        <4>2. Obscured(p, view') => Obscured(p, view)
          BY <1>5, <3>3 DEF Obscured
        <4>3. Obscured(p, view) => Obscured(p, view')
          BY <1>5, <3>3 DEF Obscured
        <4>4. Waits(p, view) => Waits(p, view')
          BY <1>5, <3>3 DEF Waits
        <4> QED
          BY <3>1, <4>1, <4>2, <4>3, <4>4 DEF CoverOk
      <3> QED
        BY <3>2, <3>3
    <2> QED
      BY <1>1, <2>1, <2>2 DEF Covered
  <1>9. Flowing' /\ Ticking'
    BY <1>1, PipeSame
  <1>10. BarTypes'
    BY <1>1, <1>3, <1>4, <1>6 DEF BarOk, BarTypes
  <1> QED
    BY <1>7, <1>8, <1>9, <1>10 DEF BarOk

\* An output that comes back is painted, unless the lock keeps it dark.
LEMMA SwitchOnOk ==
    ASSUME BarOk, NEW o \in Outputs, NEW lit \in BOOLEAN, SwitchOn(o, lit)
    PROVE  BarOk'
  <1>1. /\ out' = [out EXCEPT ![o].wanted = TRUE, ![o].lit = lit]
        /\ helper' = helper /\ pipe' = pipe /\ source' = source /\ config' = config
        /\ view' = view /\ locked' = locked
        /\ bar' = [bar EXCEPT ![o] = Refresh(o, source.block, config, out', @)]
    BY DEF SwitchOn
  <1>2. BarTypes /\ out \in Outs
    BY DEF BarOk, BarTypes
  <1>3. /\ out' \in Outs /\ out'[o].x = out[o].x /\ out'[o].width = out[o].width
        /\ out'[o].wanted
        /\ \A p \in Outputs \ {o} : out'[p] = out[p]
    BY <1>1, <1>2 DEF Outs
  <1>4. PaintedOk(bar[o], config.colour, out'[o])
    BY <1>3 DEF BarOk, Painted, PaintedOk
  <1>5. HomeOk(bar[o], out'[o], o, view)
    BY <1>3 DEF BarOk, Covered, HomeOk
  <1>6. bar' \in [Outputs -> OneBar] /\ Painted' /\ Covered'
    BY <1>1, <1>2, <1>3, <1>4, <1>5, OneRefreshed DEF BarOk
  <1>7. Flowing' /\ Ticking'
    BY <1>1, PipeSame
  <1>8. BarTypes'
    BY <1>1, <1>2, <1>3, <1>6 DEF BarTypes
  <1> QED
    BY <1>6, <1>7, <1>8 DEF BarOk
-----------------------------------------------------------------------------
(* Windows *)

\* One window changes, and the bar of the output it is on is asked about: the output it leaves,
\* if it leaves one, has nothing in front of its bar.
LEMMA StepOk ==
    ASSUME BarOk, NEW v \in Views, NEW to \in OneView, Step(v, to),
           to.on = None => view[v].on = None,
           to.on # None => out[to.on].wanted,
           view[v].on \notin {None, to.on} => ~bar[view[v].on].obscured
    PROVE  BarOk'
  <1>1. /\ view' = [view EXCEPT ![v] = to]
        /\ bar' = IF to.on = None THEN bar ELSE [bar EXCEPT ![to.on] = Uncover(to.on, view', @)]
        /\ helper' = helper /\ pipe' = pipe /\ source' = source /\ config' = config
        /\ out' = out /\ locked' = locked
    BY DEF Step
  <1>2. bar \in [Outputs -> OneBar] /\ view \in Windows /\ None \notin Outputs
    BY NameAssumption DEF BarOk, BarTypes
  <1>3. view' \in Windows /\ view'[v] = to /\ \A w \in Views \ {v} : view'[w] = view[w]
    BY <1>1, <1>2 DEF Windows
  <1>4. to.on \in Outputs \cup {None} /\ view[v].on \in Outputs \cup {None}
    BY <1>2 DEF Windows, OneView
  <1>5. ASSUME NEW o \in Outputs, o # to.on
        PROVE  bar'[o] = bar[o] /\ HomeOk(bar[o], out[o], o, view')
               /\ (~locked.up => CoverOk(bar[o], o, view'))
    <2>1. bar'[o] = bar[o]
      BY <1>1, <1>2, <1>4, <1>5
    <2>2. HomeOk(bar[o], out[o], o, view) /\ (~locked.up => CoverOk(bar[o], o, view))
      BY DEF BarOk, Covered
    <2>3. \A w \in Views : view'[w].on = o => w # v /\ view[w] = view'[w]
      BY <1>3, <1>5
    <2>4. HomeOk(bar[o], out[o], o, view')
      <3>1. ASSUME ~out[o].wanted, NEW w \in Views PROVE view'[w].on # o
        <4>1. view[w].on # o
          BY <2>2, <3>1 DEF HomeOk
        <4> QED
          BY <2>3, <4>1
      <3> QED
        BY <2>2, <3>1 DEF HomeOk
    <2>5. ASSUME ~locked.up PROVE CoverOk(bar[o], o, view')
      <3>1. CoverOk(bar[o], o, view)
        BY <2>2, <2>5
      <3>2. Obscured(o, view') => Obscured(o, view)
        BY <2>3 DEF Obscured
      <3>3. CASE ~bar[o].obscured
        BY <3>1, <3>2, <3>3 DEF CoverOk
      <3>4. CASE bar[o].obscured
        <4>1. view[v].on # o
          BY <1>2, <1>5, <3>4
        <4>2. \A w \in Views : view[w].on = o => w # v /\ view[w] = view'[w]
          BY <1>3, <4>1
        <4>3. Obscured(o, view) => Obscured(o, view')
          BY <4>2 DEF Obscured
        <4>4. Waits(o, view) => Waits(o, view')
          BY <4>2 DEF Waits
        <4> QED
          BY <3>1, <3>4, <4>3, <4>4 DEF CoverOk
      <3> QED
        BY <3>3, <3>4
    <2> QED
      BY <2>1, <2>4, <2>5
  <1>6. ASSUME NEW o \in Outputs, o = to.on
        PROVE  /\ bar'[o] \in OneBar /\ bar'[o].pic = bar[o].pic /\ bar'[o].key = bar[o].key
               /\ HomeOk(bar'[o], out[o], o, view') /\ CoverOk(bar'[o], o, view')
    <2>1. bar'[o] = Uncover(o, view', bar[o]) /\ out[o].wanted
      BY <1>1, <1>2, <1>6
    <2>2. bar[o] \in OneBar
      BY <1>2
    <2>3. bar[o].shown => out[o].wanted /\ ~bar[o].obscured /\ bar[o].pic # None
      BY DEF BarOk, Covered, HomeOk
    <2> QED
      BY <2>1, <2>2, <2>3, UncoverOk
  <1>7. bar' \in [Outputs -> OneBar]
    <2>1. \A o \in Outputs : bar'[o] \in OneBar
      BY <1>2, <1>5, <1>6
    <2>2. bar' = [o \in Outputs |-> bar'[o]]
      BY <1>1, <1>2
    <2> QED
      BY <2>1, <2>2
  <1>8. Painted'
    <2>1. ASSUME NEW o \in Outputs
          PROVE  PaintedOk(bar'[o], config.colour, out[o])
      <3>1. PaintedOk(bar[o], config.colour, out[o])
        BY DEF BarOk, Painted
      <3>2. bar'[o].pic = bar[o].pic /\ bar'[o].key = bar[o].key
        BY <1>5, <1>6
      <3> QED
        BY <3>1, <3>2 DEF PaintedOk
    <2> QED
      BY <1>1, <2>1 DEF Painted
  <1>9. Covered'
    <2>1. ASSUME NEW o \in Outputs
          PROVE  HomeOk(bar'[o], out[o], o, view') /\ (~locked.up => CoverOk(bar'[o], o, view'))
      BY <1>5, <1>6
    <2> QED
      BY <1>1, <2>1 DEF Covered
  <1>10. Flowing' /\ Ticking'
    BY <1>1, PipeSame
  <1>11. BarTypes'
    BY <1>1, <1>3, <1>7 DEF BarOk, BarTypes
  <1> QED
    BY <1>8, <1>9, <1>10, <1>11 DEF BarOk

\* A window stays where it is, covers no more than before, and waits for its client.
LEMMA QuietOk ==
    ASSUME BarOk, NEW v \in Views, NEW to \in OneView, Quiet(v, to),
           to.on = view[v].on, to.hidden = view[v].hidden, to.full => view[v].full,
           to.op # "none"
    PROVE  BarOk'
  <1>1. /\ view' = [view EXCEPT ![v] = to]
        /\ helper' = helper /\ pipe' = pipe /\ source' = source /\ config' = config
        /\ out' = out /\ locked' = locked /\ bar' = bar
    BY DEF Quiet
  <1>2. view \in Windows
    BY DEF BarOk, BarTypes
  <1>3. view' \in Windows /\ view'[v] = to /\ \A w \in Views \ {v} : view'[w] = view[w]
    BY <1>1, <1>2 DEF Windows
  <1>4. ASSUME NEW o \in Outputs
        PROVE  HomeOk(bar[o], out[o], o, view') /\ (~locked.up => CoverOk(bar[o], o, view'))
    <2>1. HomeOk(bar[o], out[o], o, view) /\ (~locked.up => CoverOk(bar[o], o, view))
      BY DEF BarOk, Covered
    <2>2. \A w \in Views : /\ view'[w].on = view[w].on /\ view'[w].hidden = view[w].hidden
                           /\ (view'[w].full => view[w].full)
                           /\ (view[w].op # "none" => view'[w].op # "none")
                           /\ (w # v => view'[w] = view[w])
      BY <1>3
    <2>3. HomeOk(bar[o], out[o], o, view')
      BY <2>1, <2>2 DEF HomeOk
    <2>4. Obscured(o, view') => Obscured(o, view)
      BY <2>2 DEF Obscured
    <2>5. Waits(o, view) => Waits(o, view')
      BY <2>2 DEF Waits
    <2>6. Obscured(o, view) => Obscured(o, view') \/ Waits(o, view')
      <3>1. ASSUME Obscured(o, view) PROVE Obscured(o, view') \/ Waits(o, view')
        <4>1. PICK w \in Views : view[w].on = o /\ ~view[w].hidden /\ view[w].full
          BY <3>1 DEF Obscured
        <4>2. CASE w = v
          BY <1>3, <2>2, <4>1, <4>2 DEF Waits
        <4>3. CASE w # v
          BY <2>2, <4>1, <4>3 DEF Obscured
        <4> QED
          BY <4>2, <4>3
      <3> QED
        BY <3>1
    <2> QED
      BY <2>1, <2>3, <2>4, <2>5, <2>6 DEF CoverOk
  <1>5. Covered'
    BY <1>1, <1>4 DEF Covered
  <1>6. Painted'
    BY <1>1 DEF BarOk, Painted
  <1>7. Flowing' /\ Ticking'
    BY <1>1, PipeSame
  <1>8. BarTypes'
    BY <1>1, <1>3 DEF BarOk, BarTypes
  <1> QED
    BY <1>5, <1>6, <1>7, <1>8 DEF BarOk

\* The fields of one window; an output it is on is one of the desktop.
LEMMA ViewType ==
    ASSUME BarOk, NEW v \in Views
    PROVE  /\ view[v] \in OneView /\ view[v].on \in Outputs \cup {None}
           /\ view[v].hidden \in BOOLEAN /\ view[v].full \in BOOLEAN
           /\ view[v].op \in {"none", "change", "reset", "fullscreen"}
           /\ view[v].on # None => out[view[v].on].wanted
  <1>1. view[v] \in OneView
    BY DEF BarOk, BarTypes, Windows
  <1>2. /\ view[v].on \in Outputs \cup {None} /\ view[v].hidden \in BOOLEAN
        /\ view[v].full \in BOOLEAN /\ view[v].op \in {"none", "change", "reset", "fullscreen"}
    BY <1>1 DEF OneView
  <1>3. ASSUME view[v].on # None PROVE out[view[v].on].wanted
    BY <1>2, <1>3 DEF BarOk, Covered, HomeOk
  <1> QED
    BY <1>1, <1>2, <1>3

\* Showing, hiding and committing leave a window where it is.
LEMMA StayOk ==
    ASSUME BarOk, NEW v \in Views, NEW to \in OneView, Step(v, to), to.on = view[v].on
    PROVE  BarOk'
  BY ViewType, StepOk

LEMMA ShowOk == ASSUME BarOk, NEW v \in Views, Show(v) PROVE BarOk'
  <1> DEFINE to == [view[v] EXCEPT !.hidden = FALSE]
  <1>1. Step(v, to)
    BY DEF Show
  <1>2. view[v] \in OneView
    BY ViewType
  <1>3. to \in OneView /\ to.on = view[v].on
    BY <1>2 DEF OneView
  <1> HIDE DEF to
  <1> QED
    BY <1>1, <1>3, StayOk

LEMMA HideOk == ASSUME BarOk, NEW v \in Views, Hide(v) PROVE BarOk'
  <1> DEFINE to == [view[v] EXCEPT !.hidden = TRUE]
  <1>1. Step(v, to)
    BY DEF Hide
  <1>2. view[v] \in OneView
    BY ViewType
  <1>3. to \in OneView /\ to.on = view[v].on
    BY <1>2 DEF OneView
  <1> HIDE DEF to
  <1> QED
    BY <1>1, <1>3, StayOk

LEMMA CommitOk == ASSUME BarOk, NEW v \in Views, Commit(v) PROVE BarOk'
  <1> DEFINE full == (view[v].full /\ view[v].op = "change") \/ view[v].op = "fullscreen"
             to == [view[v] EXCEPT !.op = "none", !.full = full]
  <1>1. Step(v, to)
    BY DEF Commit
  <1>2. view[v] \in OneView /\ full \in BOOLEAN
    BY ViewType
  <1> HIDE DEF full
  <1>3. to \in OneView /\ to.on = view[v].on
    BY <1>2 DEF OneView
  <1> HIDE DEF to
  <1> QED
    BY <1>1, <1>3, StayOk

LEMMA MapViewOk ==
    ASSUME BarOk, NEW v \in Views, NEW o \in Outputs, MapView(v, o)
    PROVE  BarOk'
  <1> DEFINE to == [on |-> o, hidden |-> FALSE, full |-> FALSE, op |-> "none"]
  <1>1. Step(v, to) /\ out[o].wanted /\ view[v].on = None
    BY DEF MapView
  <1>2. to \in OneView /\ to.on = o /\ o # None
    BY NameAssumption DEF OneView
  <1> HIDE DEF to
  <1> QED
    BY <1>1, <1>2, StepOk

LEMMA MigrateOk ==
    ASSUME Races = {}, BarOk, NEW v \in Views, NEW o \in Outputs, Migrate(v, o)
    PROVE  BarOk'
  <1> DEFINE to == [view[v] EXCEPT !.on = o, !.op = "reset"]
  <1>1. Step(v, to) /\ out[o].wanted /\ view[v].on # None /\ ~bar[view[v].on].obscured
    BY DEF Migrate
  <1>2. view[v] \in OneView
    BY ViewType
  <1>3. to \in OneView /\ to.on = o /\ o # None
    BY <1>2, NameAssumption DEF OneView
  <1> HIDE DEF to
  <1> QED
    BY <1>1, <1>3, StepOk

LEMMA RequestOk ==
    ASSUME BarOk, NEW v \in Views, NEW full \in BOOLEAN, Request(v, full)
    PROVE  BarOk'
  <1> DEFINE op == IF full THEN "fullscreen" ELSE "change"
             to == [view[v] EXCEPT !.op = op, !.full = FALSE]
  <1>1. Quiet(v, to)
    BY DEF Request
  <1>2. view[v] \in OneView /\ op \in {"fullscreen", "change"}
    BY ViewType
  <1> HIDE DEF op
  <1>3. /\ to \in OneView /\ to.on = view[v].on /\ to.hidden = view[v].hidden /\ ~to.full
        /\ to.op # "none"
    BY <1>2 DEF OneView
  <1> HIDE DEF to
  <1> QED
    BY <1>1, <1>3, QuietOk

LEMMA RearrangeOk ==
    ASSUME BarOk, NEW v \in Views, NEW op \in {"change", "reset"}, Rearrange(v, op)
    PROVE  BarOk'
  <1> DEFINE full == view[v].full /\ op = "reset"
             to == [view[v] EXCEPT !.op = op, !.full = full]
  <1>1. Quiet(v, to)
    BY DEF Rearrange
  <1>2. view[v] \in OneView /\ full \in BOOLEAN /\ (full => view[v].full)
    BY ViewType
  <1> HIDE DEF full
  <1>3. /\ to \in OneView /\ to.on = view[v].on /\ to.hidden = view[v].hidden /\ to.full = full
        /\ to.op # "none"
    BY <1>2 DEF OneView
  <1> HIDE DEF to
  <1> QED
    BY <1>1, <1>2, <1>3, QuietOk
\* A window that goes is no longer in front of the bar it was in front of.
LEMMA UnmapViewOk == ASSUME BarOk, NEW v \in Views, UnmapView(v) PROVE BarOk'
  <1> DEFINE at == view[v].on
             to == [on |-> None, hidden |-> TRUE, full |-> FALSE, op |-> "none"]
  <1>1. /\ view' = [view EXCEPT ![v] = to]
        /\ bar' = [bar EXCEPT ![at] = Uncover(at, view', @)]
        /\ locked' = [locked EXCEPT !.forced = @ \ {v}]
        /\ helper' = helper /\ pipe' = pipe /\ source' = source /\ config' = config /\ out' = out
        /\ at # None
    BY DEF UnmapView
  <1>2. /\ bar \in [Outputs -> OneBar] /\ view \in Windows /\ None \notin Outputs
        /\ locked \in [up : BOOLEAN, forced : SUBSET Views]
    BY NameAssumption DEF BarOk, BarTypes
  <1>3. to \in OneView /\ to.on = None
    BY DEF OneView
  <1>4. at \in Outputs /\ out[at].wanted
    BY <1>1, ViewType
  <1> HIDE DEF to, at
  <1>5. view' \in Windows /\ view'[v] = to /\ \A w \in Views \ {v} : view'[w] = view[w]
    BY <1>1, <1>2, <1>3 DEF Windows
  <1>6. \A o \in Outputs : \A w \in Views : view'[w].on = o => w # v /\ view[w] = view'[w]
    BY <1>2, <1>3, <1>5
  <1>7. ASSUME NEW o \in Outputs, o # at
        PROVE  bar'[o] = bar[o] /\ HomeOk(bar[o], out[o], o, view')
               /\ (~locked.up => CoverOk(bar[o], o, view'))
    <2>1. bar'[o] = bar[o]
      BY <1>1, <1>2, <1>7
    <2>2. HomeOk(bar[o], out[o], o, view) /\ (~locked.up => CoverOk(bar[o], o, view))
      BY DEF BarOk, Covered
    <2>3. \A w \in Views : (view[w].on = o <=> view'[w].on = o)
                           /\ (view[w].on = o => view'[w] = view[w])
      BY <1>5, <1>6, <1>7 DEF at
    <2>4. HomeOk(bar[o], out[o], o, view')
      BY <2>2, <2>3 DEF HomeOk
    <2>5. (Obscured(o, view') <=> Obscured(o, view)) /\ (Waits(o, view) => Waits(o, view'))
      BY <2>3 DEF Obscured, Waits
    <2> QED
      BY <2>1, <2>2, <2>4, <2>5 DEF CoverOk
  <1>8. /\ bar'[at] \in OneBar /\ bar'[at].pic = bar[at].pic /\ bar'[at].key = bar[at].key
        /\ HomeOk(bar'[at], out[at], at, view') /\ CoverOk(bar'[at], at, view')
    <2>1. bar'[at] = Uncover(at, view', bar[at]) /\ bar[at] \in OneBar
      BY <1>1, <1>2, <1>4
    <2>2. bar[at].shown => out[at].wanted /\ ~bar[at].obscured /\ bar[at].pic # None
      BY <1>4 DEF BarOk, Covered, HomeOk
    <2> QED
      BY <1>4, <2>1, <2>2, UncoverOk
  <1>9. bar' \in [Outputs -> OneBar]
    <2>1. \A o \in Outputs : bar'[o] \in OneBar
      BY <1>2, <1>7, <1>8
    <2>2. bar' = [o \in Outputs |-> bar'[o]]
      BY <1>1, <1>2
    <2> QED
      BY <2>1, <2>2
  <1>10. locked' \in [up : BOOLEAN, forced : SUBSET Views] /\ locked'.up = locked.up
    BY <1>1, <1>2
  <1>11. Painted'
    <2>1. ASSUME NEW o \in Outputs
          PROVE  PaintedOk(bar'[o], config.colour, out[o])
      <3>1. PaintedOk(bar[o], config.colour, out[o])
        BY DEF BarOk, Painted
      <3>2. bar'[o].pic = bar[o].pic /\ bar'[o].key = bar[o].key
        BY <1>7, <1>8
      <3> QED
        BY <3>1, <3>2 DEF PaintedOk
    <2> QED
      BY <1>1, <2>1 DEF Painted
  <1>12. Covered'
    <2>1. ASSUME NEW o \in Outputs
          PROVE  HomeOk(bar'[o], out[o], o, view') /\ (~locked.up => CoverOk(bar'[o], o, view'))
      BY <1>7, <1>8
    <2> QED
      BY <1>1, <1>10, <2>1 DEF Covered
  <1>13. Flowing' /\ Ticking'
    BY <1>1, PipeSame
  <1>14. BarTypes'
    BY <1>1, <1>5, <1>9, <1>10 DEF BarOk, BarTypes
  <1> QED
    BY <1>11, <1>12, <1>13, <1>14 DEF BarOk

\* The windows after some have been forced, or given back.
LEMMA FlipType ==
    ASSUME BarOk, NEW V \in SUBSET Views
    PROVE  /\ Flip(V) \in Windows
           /\ \A v \in Views : Flip(V)[v].on = view[v].on
  <1>1. ASSUME NEW v \in Views
        PROVE  Flip(V)[v] \in OneView /\ Flip(V)[v].on = view[v].on
    <2>1. view[v] \in OneView /\ (~view[v].hidden) \in BOOLEAN
      BY ViewType
    <2>2. Flip(V)[v] = IF v \in V THEN [view[v] EXCEPT !.hidden = ~view[v].hidden] ELSE view[v]
      BY DEF Flip
    <2> QED
      BY <2>1, <2>2 DEF OneView
  <1>2. Flip(V) = [v \in Views |-> Flip(V)[v]]
    BY DEF Flip
  <1> QED
    BY <1>1, <1>2 DEF Windows

\* The lock looks after no bar.
LEMMA LockOk == ASSUME BarOk, Lock PROVE BarOk'
  <1>1. PICK forced \in SUBSET Views :
            locked' = [up |-> TRUE, forced |-> forced] /\ view' = Flip(forced)
    BY DEF Lock
  <1>2. /\ helper' = helper /\ pipe' = pipe /\ source' = source /\ config' = config
        /\ out' = out /\ bar' = bar
    BY DEF Lock
  <1>3. view' \in Windows /\ \A v \in Views : view'[v].on = view[v].on
    BY <1>1, FlipType
  <1>4. Covered'
    BY <1>1, <1>2, <1>3 DEF BarOk, Covered, HomeOk
  <1>5. Painted'
    BY <1>2 DEF BarOk, Painted
  <1>6. Flowing' /\ Ticking'
    BY <1>2, PipeSame
  <1>7. BarTypes'
    BY <1>1, <1>2, <1>3 DEF BarOk, BarTypes
  <1> QED
    BY <1>4, <1>5, <1>6, <1>7 DEF BarOk

\* The unlock asks the windows about every bar.
LEMMA UnlockOk == ASSUME BarOk, Unlock PROVE BarOk'
  <1>1. /\ view' = Flip(locked.forced) /\ locked' = [up |-> FALSE, forced |-> {}]
        /\ bar' = UncoverAll(view') /\ Light(TRUE)
        /\ helper' = helper /\ pipe' = pipe /\ source' = source /\ config' = config
    BY DEF Unlock
  <1>2. /\ bar \in [Outputs -> OneBar] /\ locked.forced \in SUBSET Views
    BY DEF BarOk, BarTypes
  <1>3. view' \in Windows /\ \A v \in Views : view'[v].on = view[v].on
    BY <1>1, <1>2, FlipType
  <1>4. /\ out' \in Outs
        /\ \A o \in Outputs : /\ out'[o].x = out[o].x /\ out'[o].width = out[o].width
                              /\ out'[o].wanted = out[o].wanted
                              /\ out'[o].lit = (TRUE /\ out[o].wanted)
    BY <1>1, LightType
  <1>5. ASSUME NEW o \in Outputs
        PROVE  /\ bar'[o] \in OneBar /\ bar'[o].pic = bar[o].pic /\ bar'[o].key = bar[o].key
               /\ HomeOk(bar'[o], out'[o], o, view') /\ CoverOk(bar'[o], o, view')
    <2>1. bar'[o] = Uncover(o, view', bar[o]) /\ bar[o] \in OneBar
      BY <1>1, <1>2 DEF UncoverAll
    <2>2. HomeOk(bar[o], out[o], o, view)
      BY DEF BarOk, Covered
    <2>3. bar[o].shown => out'[o].wanted /\ ~bar[o].obscured /\ bar[o].pic # None
      BY <1>4, <2>2 DEF HomeOk
    <2>4. ~out'[o].wanted => ~out'[o].lit /\ ~bar[o].obscured /\ \A v \in Views : view'[v].on # o
      BY <1>3, <1>4, <2>2 DEF HomeOk
    <2> QED
      BY <2>1, <2>3, <2>4, UncoverOk
  <1>6. bar' \in [Outputs -> OneBar]
    BY <1>1, <1>5 DEF UncoverAll
  <1>7. Covered'
    BY <1>5 DEF Covered
  <1>8. Painted'
    <2>1. ASSUME NEW o \in Outputs
          PROVE  PaintedOk(bar'[o], config.colour, out'[o])
      <3>1. PaintedOk(bar[o], config.colour, out[o])
        BY DEF BarOk, Painted
      <3> QED
        BY <1>4, <1>5, <3>1 DEF PaintedOk
    <2> QED
      BY <1>1, <2>1 DEF Painted
  <1>9. Flowing' /\ Ticking'
    BY <1>1, PipeSame
  <1>10. BarTypes'
    BY <1>1, <1>3, <1>4, <1>6 DEF BarOk, BarTypes
  <1> QED
    BY <1>7, <1>8, <1>9, <1>10 DEF BarOk
-----------------------------------------------------------------------------
(* All steps *)

\* The invariant holds at the start.
LEMMA InitOk == ASSUME Init PROVE BarOk
  <1>1. PICK state \in {"runs", "gone"}, c \in Configs :
            /\ helper = [state |-> state, half |-> None] /\ config = c
            /\ source = [open |-> state = "runs", buf |-> <<>>, lost |-> FALSE, seen |-> c,
                         block |-> [text |-> 0, offset |-> 0], armed |-> FALSE, pending |-> FALSE]
    BY DEF Init, Configs
  <1>2. PICK x \in Spots, w \in Widths :
            out = [o \in Outputs |-> [x |-> x, width |-> w, lit |-> TRUE, wanted |-> TRUE]]
    BY DEF Init
  <1>3. /\ pipe = <<>> /\ bar = [o \in Outputs |-> NoBar]
        /\ view = [v \in Views |-> [on |-> None, hidden |-> TRUE, full |-> FALSE, op |-> "none"]]
        /\ locked = [up |-> FALSE, forced |-> {}]
    BY DEF Init
  <1>4. <<>> \in Seq(Parts) /\ Len(<<>>) = 0 /\ DOMAIN <<>> = {}
    BY EmptySeq, LenProperties
  <1>5. helper \in Helpers /\ helper.half = None /\ config \in Configs
    BY <1>1 DEF Helpers
  <1>6. /\ source \in Sources /\ source.buf = <<>> /\ ~source.armed /\ ~source.pending
        /\ source.block.text = 0
    <2>1. (state = "runs") \in BOOLEAN /\ [text |-> 0, offset |-> 0] \in Blocks
      BY DEF Blocks
    <2> QED
      BY <1>1, <1>4, <2>1 DEF Sources
  <1>7. out \in Outs /\ \A o \in Outputs : out[o].wanted
    BY <1>2 DEF Outs
  <1>8. /\ bar \in [Outputs -> OneBar]
        /\ \A o \in Outputs : bar[o].pic = None /\ ~bar[o].shown /\ ~bar[o].obscured
    BY <1>3 DEF OneBar, NoBar
  <1>9. view \in Windows /\ \A v \in Views : ~view[v].full
    BY <1>3 DEF Windows, OneView
  <1>10. BarTypes
    BY <1>3, <1>4, <1>5, <1>6, <1>7, <1>8, <1>9 DEF BarTypes
  <1>11. Flowing
    <2>1. <<>> \o <<>> = <<>>
      BY <1>4, ConcatEmptySeq
    <2>2. Follows(<<>>, source.lost) /\ Ends(<<>>) = {}
      BY <1>4 DEF Follows, Ends
    <2> QED
      BY <1>3, <1>4, <1>5, <1>6, <2>1, <2>2, LengthAssumption DEF Flowing
  <1>12. Ticking
    <2>1. source.seen.cap \in Nat
      BY <1>6, LengthAssumption DEF Sources, Configs
    <2>2. ~(Period(0, source.seen) > 0)
      BY <2>1 DEF Period
    <2> QED
      BY <1>6, <2>2 DEF Ticking
  <1>13. Painted
    BY <1>8 DEF Painted, PaintedOk
  <1>14. Covered
    BY <1>7, <1>8, <1>9 DEF Covered, HomeOk, CoverOk, Obscured
  <1> QED
    BY <1>10, <1>11, <1>12, <1>13, <1>14 DEF BarOk

\* Every step keeps it.
LEMMA NextOk == ASSUME Races = {}, BarOk, [Next]_vars PROVE BarOk'
  <1>1. CASE \E t \in Texts : WriteHead(t)
    BY <1>1, WriteHeadOk
  <1>2. CASE WriteTail \/ HelperDies \/ Readable \/ Hangup \/ ScrollTick \/ Reload
    BY <1>2, WriteTailOk, HelperDiesOk, ReadableOk, HangupOk, ScrollTickOk, ReloadOk
  <1>3. CASE \E o \in Outputs :
                \/ Resize(o) \/ \E lit \in BOOLEAN : SwitchOn(o, lit)
                \/ \E into \in Outputs : SwitchOff(o, into)
    BY <1>3, ResizeOk, SwitchOnOk, SwitchOffOk
  <1>4. CASE \E v \in Views :
                \/ Show(v) \/ Hide(v) \/ UnmapView(v) \/ Commit(v)
                \/ \E full \in BOOLEAN : Request(v, full)
                \/ \E op \in {"change", "reset"} : Rearrange(v, op)
                \/ \E o \in Outputs : MapView(v, o) \/ Migrate(v, o)
    BY <1>4, ShowOk, HideOk, UnmapViewOk, CommitOk, RequestOk, RearrangeOk, MapViewOk, MigrateOk
  <1>5. CASE Lock \/ Unlock \/ \E lit \in BOOLEAN : Blank(lit)
    BY <1>5, LockOk, UnlockOk, BlankOk
  <1>6. CASE UNCHANGED vars
    <2>1. /\ helper' = helper /\ pipe' = pipe /\ source' = source /\ config' = config
          /\ out' = out /\ bar' = bar /\ view' = view /\ locked' = locked
      BY <1>6 DEF vars
    <2>2. Flowing' /\ Ticking' /\ Painted' /\ Covered'
      BY <2>1, PipeSame, DesktopSame
    <2>3. BarTypes'
      BY <2>1 DEF BarOk, BarTypes
    <2> QED
      BY <2>2, <2>3 DEF BarOk
  <1> QED
    BY <1>1, <1>2, <1>3, <1>4, <1>5, <1>6 DEF Next

\* The invariant is at least the property.
LEMMA BarOkIsEnough == ASSUME BarOk PROVE BarIsTrue
  <1>1. TypeOK
    BY DEF BarOk, BarTypes, TypeOK, Sources, Blocks, Configs, Parts
  <1>2. PicturesAreCurrent
    <2> SUFFICES ASSUME NEW o \in Outputs, bar[o].pic # None,
                        bar[o].key = Key(o, source.block, config, out)
                 PROVE  bar[o].pic = Picture(o, source.block, config, out)
      BY DEF PicturesAreCurrent
    <2>1. source.block \in Blocks /\ config \in Configs /\ out \in Outs
      BY StreamType DEF BarOk, BarTypes
    <2>2. /\ bar[o].key.width = out[o].width
          /\ Picture(o, source.block, config, out) = Drawn(bar[o].key, config.colour, out[o].x)
      BY <2>1, PictureIsDrawn
    <2>3. bar[o].pic = Drawn(bar[o].key, config.colour, bar[o].pic.x) /\ bar[o].pic.x = out[o].x
      BY <2>2 DEF BarOk, Painted, PaintedOk
    <2> QED
      BY <2>2, <2>3
  <1>3. TimerIsRight
    BY DEF BarOk, Ticking, TimerIsRight
  <1>4. LinesStayWhole
    <2> DEFINE s == source.buf \o pipe
    <2>1. ASSUME ~source.lost, NEW i \in DOMAIN s, s[i][2] = "tail"
          PROVE  i > 1 /\ s[i - 1] = <<s[i][1], "head">>
      <3>1. s \in Seq(Parts)
        BY StreamType DEF BarOk
      <3>2. Follows(s, source.lost)
        BY DEF BarOk, Flowing
      <3> HIDE DEF s
      <3>3. i \in 1 .. Len(s) /\ Len(s) \in Nat
        BY <3>1, <2>1, LenProperties
      <3>4. i # 1 /\ s[i - 1] = <<s[i][1], "head">>
        BY <2>1, <3>2 DEF Follows
      <3> QED
        BY <3>3, <3>4
    <2> QED
      BY <2>1 DEF BarOk, Flowing, LinesStayWhole
  <1>5. CoverIsCurrent
    <2> SUFFICES ASSUME NEW o \in Outputs
                 PROVE  /\ bar[o].shown => out[o].wanted /\ ~bar[o].obscured /\ bar[o].pic # None
                        /\ (~locked.up /\ out[o].wanted /\ \A v \in Views : view[v].on = o => view[v].op = "none")
                             => (bar[o].obscured <=>
                                    \E v \in Views : view[v].on = o /\ view[v].full /\ ~view[v].hidden)
      BY DEF CoverIsCurrent
    <2>1. HomeOk(bar[o], out[o], o, view) /\ (~locked.up => CoverOk(bar[o], o, view))
      BY DEF BarOk, Covered
    <2>2. Waits(o, view) \/ \A v \in Views : view[v].on = o => view[v].op = "none"
      BY DEF Waits
    <2>3. Obscured(o, view) <=> \E v \in Views : view[v].on = o /\ view[v].full /\ ~view[v].hidden
      BY DEF Obscured
    <2>4. (\A v \in Views : view[v].on = o => view[v].op = "none") => ~Waits(o, view)
      BY DEF Waits
    <2> QED
      BY <2>1, <2>3, <2>4 DEF HomeOk, CoverOk
  <1> QED
    BY <1>1, <1>2, <1>3, <1>4, <1>5 DEF BarIsTrue

\* For any outputs, windows, texts and limits: what the bar keeps of the helper's lines, its
\* timer, its pictures and its answers about the windows stay sound (bar.c:887, :736, :1267,
\* :1218), without the orders of events that bar.c leaves open.
THEOREM BarStaysSound ==
    ASSUME Races = {}
    PROVE  Spec => []BarOk
  <1>1. Init => BarOk
    BY InitOk
  <1>2. BarOk /\ [Next]_vars => BarOk'
    BY NextOk
  <1> QED
    BY <1>1, <1>2, PTL DEF Spec

\* A skipped paint would have painted what is there, a long block scrolls, a line that was cut
\* is never read as a whole one, and a bar is away exactly while a fullscreen window covers it
\* (bar.c:660, :736, :932, :1218).
THEOREM BarStaysTrue ==
    ASSUME Races = {}
    PROVE  Spec => []BarIsTrue
  <1>1. BarOk => BarIsTrue
    BY BarOkIsEnough
  <1> QED
    BY <1>1, BarStaysSound, PTL

-----------------------------------------------------------------------------
(* What a fold computes.  The theorems of the library about induction take *)
(* an operator; these take a set or a function.                            *)

\* A set of numbers that has 0, and the next one of each, has all up to a bound.
LEMMA Climbs ==
    ASSUME NEW n \in Nat, NEW B, 0 \in B, \A i \in 1 .. n : i - 1 \in B => i \in B
    PROVE  \A i \in 0 .. n : i \in B
  <1> DEFINE D == {i \in 0 .. n : i \notin B}
  <1> SUFFICES ASSUME D # {} PROVE FALSE
    OBVIOUS
  <1>1. D \subseteq Nat
    OBVIOUS
  <1>2. PICK x \in D : \A y \in D : <<y, x>> \notin OpToRel(<, Nat)
    BY <1>1, WFMin, NatLessThanWellFounded, Zenon
  <1>3. x \in 1 .. n
    OBVIOUS
  <1>4. x - 1 \in 0 .. n /\ x - 1 \in Nat /\ x \in Nat
    BY <1>3
  <1>5. <<x - 1, x>> \in OpToRel(<, Nat)
    BY <1>4 DEF OpToRel
  <1>6. x - 1 \in B
    BY <1>2, <1>4, <1>5
  <1> QED
    BY <1>2, <1>3, <1>6

\* The sets that a fold comes to are its elements less one at a time.
LEMMA Shrinks ==
    ASSUME NEW S, IsFiniteSet(S), NEW B, {} \in B,
           \A s \in SUBSET S : s # {} /\ (\A x \in s : s \ {x} \in B) => s \in B
    PROVE  S \in B
  <1> DEFINE K == {k \in Nat : \A s \in SUBSET S : Cardinality(s) = k => s \in B}
             n == Cardinality(S)
  <1>1. n \in Nat /\ \A s \in SUBSET S : IsFiniteSet(s) /\ Cardinality(s) \in Nat
    BY FS_Subset, FS_CardinalityType
  <1>2. 0 \in K
    BY <1>1, FS_EmptySet
  <1>3. ASSUME NEW k \in 1 .. n, k - 1 \in K PROVE k \in K
    <2> SUFFICES ASSUME NEW s \in SUBSET S, Cardinality(s) = k PROVE s \in B
      OBVIOUS
    <2>1. s # {}
      <3>1. Cardinality({}) = 0
        BY FS_EmptySet
      <3>2. k # 0
        BY <1>1
      <3> QED
        BY <3>1, <3>2
    <2>2. ASSUME NEW x \in s PROVE s \ {x} \in B
      <3>1. Cardinality(s \ {x}) = k - 1
        BY <1>1, FS_RemoveElement
      <3> QED
        BY <1>3, <3>1
    <2> QED
      BY <2>1, <2>2
  <1> HIDE DEF K, n
  <1>4. n \in K
    <2>1. \A k \in 1 .. n : k - 1 \in K => k \in K
      BY <1>3
    <2>2. \A k \in 0 .. n : k \in K
      BY <1>1, <1>2, <2>1, Climbs
    <2> QED
      BY <1>1, <2>2
  <1> QED
    BY <1>4 DEF K, n

\* The function a fold is defined by exists: pick says which element comes last.
Iterated(g, S, pick, base, step, T) ==
    \A s \in T : g[s] = IF s = {} THEN base ELSE step[<<g[s \ {pick[s]}], pick[s]>>]

LEMMA Iterates ==
    ASSUME NEW S, IsFiniteSet(S),
           NEW pick, \A s \in SUBSET S : s # {} => pick[s] \in s,
           NEW A, NEW base \in A, NEW step \in [A \X S -> A]
    PROVE  \E g \in [SUBSET S -> A] : Iterated(g, S, pick, base, step, SUBSET S)
  <1> DEFINE Sub(k) == {s \in SUBSET S : Cardinality(s) <= k}
             Has(k) == \E g \in [Sub(k) -> A] : Iterated(g, S, pick, base, step, Sub(k))
             K == {k \in Nat : Has(k)}
             n == Cardinality(S)
  <1>1. n \in Nat /\ \A s \in SUBSET S : IsFiniteSet(s) /\ Cardinality(s) \in Nat
    BY FS_Subset, FS_CardinalityType
  <1>2. Has(0)
    <2>1. \A s \in Sub(0) : s = {}
      <3>1. \A s \in SUBSET S : Cardinality(s) <= 0 => s = {}
        BY <1>1, FS_EmptySet
      <3> QED
        BY <3>1
    <2> DEFINE g == [s \in Sub(0) |-> base]
    <2>2. g \in [Sub(0) -> A] /\ Iterated(g, S, pick, base, step, Sub(0))
      BY <2>1 DEF Iterated
    <2> QED
      BY <2>2
  <1>3. ASSUME NEW k \in 1 .. n, Has(k - 1) PROVE Has(k)
    <2>1. PICK f \in [Sub(k - 1) -> A] : Iterated(f, S, pick, base, step, Sub(k - 1))
      BY <1>3
    <2> DEFINE Next1(s) == IF s = {} THEN base ELSE step[<<f[s \ {pick[s]}], pick[s]>>]
               g == [s \in Sub(k) |-> Next1(s)]
    <2>2. ASSUME NEW s \in Sub(k), s # {}
          PROVE  /\ pick[s] \in S /\ s \ {pick[s]} \in Sub(k - 1) /\ s \ {pick[s]} \in Sub(k)
                 /\ Next1(s) \in A
      <3>1. pick[s] \in s /\ s \in SUBSET S
        BY <2>2
      <3>2. Cardinality(s \ {pick[s]}) = Cardinality(s) - 1
        BY <1>1, <3>1, FS_RemoveElement
      <3>3. s \ {pick[s]} \in Sub(k - 1) /\ s \ {pick[s]} \in Sub(k)
        BY <1>1, <3>1, <3>2
      <3> QED
        BY <2>1, <2>2, <3>1, <3>3
    <2>3. g \in [Sub(k) -> A]
      BY <2>2
    <2>4. ASSUME NEW s \in Sub(k - 1) PROVE s \in Sub(k) /\ g[s] = f[s]
      <3>1. s \in Sub(k)
        BY <1>1
      <3>2. f[s] = Next1(s)
        BY <2>1 DEF Iterated
      <3> QED
        BY <3>1, <3>2
    <2>5. Iterated(g, S, pick, base, step, Sub(k))
      <3> SUFFICES ASSUME NEW s \in Sub(k)
                   PROVE  g[s] = IF s = {} THEN base ELSE step[<<g[s \ {pick[s]}], pick[s]>>]
        BY DEF Iterated
      <3>1. g[s] = Next1(s)
        BY DEF g
      <3>2. s # {} => g[s \ {pick[s]}] = f[s \ {pick[s]}]
        BY <2>2, <2>4
      <3> QED
        BY <3>1, <3>2
    <2> HIDE DEF g, Sub
    <2> QED
      BY <2>3, <2>5
  <1> HIDE DEF Has, n
  <1>4. n \in K
    <2>1. \A k \in 1 .. n : k - 1 \in K => k \in K
      BY <1>1, <1>3
    <2>2. 0 \in K
      BY <1>2
    <2> HIDE DEF K
    <2>3. \A k \in 0 .. n : k \in K
      BY <1>1, <2>1, <2>2, Climbs
    <2> QED
      BY <1>1, <2>3
  <1>5. Sub(n) = SUBSET S
    BY <1>1, FS_Subset DEF n
  <1> HIDE DEF Sub
  <1>6. Has(n)
    BY <1>4
  <1>7. PICK g \in [Sub(n) -> A] : Iterated(g, S, pick, base, step, Sub(n))
    BY <1>6 DEF Has
  <1> QED
    BY <1>5, <1>7

\* Max of a set of numbers up to a bound is in it, and Max(1 .. i) is i.
LEMMA MaxUpTo ==
    ASSUME NEW n \in Nat
    PROVE  /\ \A s \in SUBSET (1 .. n) : s # {} => Max(s) \in s
           /\ \A i \in 1 .. n : Max(1 .. i) = i
  <1>1. ASSUME NEW s \in SUBSET (1 .. n), s # {} PROVE Max(s) \in s
    <2> DEFINE D == {n - i : i \in s}
    <2>1. D \subseteq Nat /\ D # {}
      <3>1. PICK i \in s : TRUE
        BY <1>1
      <3>2. n - i \in D
        BY <3>1
      <3> QED
        BY <3>2
    <2>2. PICK x \in D : \A y \in D : <<y, x>> \notin OpToRel(<, Nat)
      BY <2>1, WFMin, NatLessThanWellFounded, Zenon
    <2>3. PICK m \in s : x = n - m
      BY <2>2
    <2>4. ASSUME NEW j \in s PROVE m >= j
      <3>1. n - j \in D /\ n - j \in Nat /\ x \in Nat
        BY <2>1, <2>2
      <3>2. ~(n - j < x)
        BY <2>2, <3>1 DEF OpToRel
      <3> QED
        BY <2>3, <3>2
    <2> QED
      BY <2>4 DEF Max
  <1>2. ASSUME NEW i \in 1 .. n PROVE Max(1 .. i) = i
    <2> DEFINE m == Max(1 .. i)
    <2>1. i \in 1 .. i /\ \A j \in 1 .. i : i >= j
      OBVIOUS
    <2>2. m \in 1 .. i /\ \A j \in 1 .. i : m >= j
      BY <2>1 DEF Max
    <2> QED
      BY <2>1, <2>2
  <1> QED
    BY <1>1, <1>2

\* What FoldLeft computes from a sequence of n elements, one after the other.
Folding(h, n, A, d, step) ==
    /\ h[{}] = d
    /\ \A s \in SUBSET (1 .. n) : s # {} /\ h[s \ {Max(s)}] \in A
           => h[s] = step[<<h[s \ {Max(s)}], Max(s)>>]

Chain(c, n, d, e, step) ==
    /\ c[0] = d /\ c[n] = e
    /\ \A i \in 1 .. n : c[i] = step[<<c[i - 1], i>>]

LEMMA FoldsUp ==
    ASSUME NEW n \in Nat, NEW A, NEW d \in A, NEW step \in [A \X (1 .. n) -> A],
           NEW h, Folding(h, n, A, d, step)
    PROVE  \E c \in [0 .. n -> A] : Chain(c, n, d, h[1 .. n], step)
  <1> DEFINE c == [i \in 0 .. n |-> h[1 .. i]]
             B == {i \in 0 .. n : h[1 .. i] \in A}
  <1>0. /\ h[{}] = d
        /\ \A s \in SUBSET (1 .. n) : s # {} /\ h[s \ {Max(s)}] \in A
               => h[s] = step[<<h[s \ {Max(s)}], Max(s)>>]
    BY DEF Folding
  <1>1. 1 .. 0 = {}
    OBVIOUS
  <1>2. ASSUME NEW i \in 1 .. n
        PROVE  /\ 1 .. i \in SUBSET (1 .. n) /\ 1 .. i # {} /\ Max(1 .. i) = i
               /\ (1 .. i) \ {i} = 1 .. (i - 1)
    <2>1. i \in 1 .. i /\ 1 .. i \in SUBSET (1 .. n)
      OBVIOUS
    <2>2. \A j : j \in (1 .. i) \ {i} <=> j \in 1 .. (i - 1)
      OBVIOUS
    <2>3. (1 .. i) \ {i} = 1 .. (i - 1)
      BY <2>2
    <2> QED
      BY <2>1, <2>3, MaxUpTo
  <1>3. ASSUME NEW i \in 1 .. n, h[1 .. (i - 1)] \in A
        PROVE  h[1 .. i] = step[<<h[1 .. (i - 1)], i>>] /\ h[1 .. i] \in A
    <2>1. h[1 .. i] = step[<<h[1 .. (i - 1)], i>>]
      BY <1>0, <1>2, <1>3
    <2>2. <<h[1 .. (i - 1)], i>> \in A \X (1 .. n)
      BY <1>3
    <2> QED
      BY <2>1, <2>2
  <1>4. \A i \in 0 .. n : i \in B
    <2>1. 0 \in B
      BY <1>0, <1>1
    <2>2. ASSUME NEW i \in 1 .. n, i - 1 \in B PROVE i \in B
      <3>1. h[1 .. (i - 1)] \in A
        BY <2>2
      <3>2. h[1 .. i] \in A
        BY <1>3, <3>1
      <3> QED
        BY <3>2
    <2> HIDE DEF B
    <2> QED
      BY <2>1, <2>2, Climbs
  <1>5. c \in [0 .. n -> A]
    BY <1>4
  <1>6. c[0] = d /\ c[n] = h[1 .. n]
    BY <1>0, <1>1
  <1>7. ASSUME NEW i \in 1 .. n PROVE c[i] = step[<<c[i - 1], i>>]
    <2>1. i - 1 \in 0 .. n /\ i \in 0 .. n
      OBVIOUS
    <2> QED
      BY <1>3, <1>4, <2>1
  <1> HIDE DEF c
  <1>8. Chain(c, n, d, h[1 .. n], step)
    BY <1>6, <1>7 DEF Chain
  <1> QED
    BY <1>5, <1>8

-----------------------------------------------------------------------------
(* Sequences that have each element once *)

Once(S) == {ls \in Seq(S) : IsInjective(ls)}

LEMMA FirstOf ==
    ASSUME NEW n \in Nat, NEW I \in SUBSET (1 .. n), I # {}
    PROVE  Min(I) \in I
  <1>1. I \subseteq Nat
    OBVIOUS
  <1>2. PICK x \in I : \A y \in I : <<y, x>> \notin OpToRel(<, Nat)
    BY <1>1, WFMin, NatLessThanWellFounded, Zenon
  <1>3. ASSUME NEW y \in I PROVE x <= y
    <2>1. x \in Nat /\ y \in Nat /\ ~(y < x)
      BY <1>1, <1>2 DEF OpToRel
    <2> QED
      BY <2>1
  <1> QED
    BY <1>2, <1>3 DEF Min

LEMMA ElementsOf ==
    ASSUME NEW S, NEW ls \in Seq(S)
    PROVE  /\ Len(ls) \in Nat /\ DOMAIN ls = 1 .. Len(ls)
           /\ \A i \in 1 .. Len(ls) : ls[i] \in S /\ ls[i] \in ToSet(ls)
           /\ \A o \in ToSet(ls) : o \in S /\ \E i \in 1 .. Len(ls) : ls[i] = o
           /\ ls = <<>> <=> ToSet(ls) = {}
  <1>1. Len(ls) \in Nat /\ DOMAIN ls = 1 .. Len(ls) /\ \A i \in 1 .. Len(ls) : ls[i] \in S
    BY LenProperties, ElementOfSeq
  <1>2. \A i \in 1 .. Len(ls) : ls[i] \in ToSet(ls)
    BY <1>1 DEF ToSet
  <1>3. \A o \in ToSet(ls) : o \in S /\ \E i \in 1 .. Len(ls) : ls[i] = o
    BY <1>1 DEF ToSet
  <1>4. ls = <<>> <=> ToSet(ls) = {}
    <2>1. ls = <<>> => Len(ls) = 0
      OBVIOUS
    <2>2. ls # <<>> => Len(ls) \in Nat \ {0}
      BY EmptySeq
    <2>3. ls = <<>> => ToSet(ls) = {}
      BY <1>3, <2>1
    <2>4. ls # <<>> => 1 \in 1 .. Len(ls)
      BY <2>2
    <2> QED
      BY <1>2, <2>3, <2>4
  <1> QED
    BY <1>1, <1>2, <1>3, <1>4

LEMMA PrependedOnce ==
    ASSUME NEW S, NEW ls \in Once(S), NEW o \in S
    PROVE  /\ <<o>> \o ls \in Seq(S) /\ ToSet(<<o>> \o ls) = {o} \cup ToSet(ls)
           /\ <<o>> \o ls # <<>>
           /\ o \notin ToSet(ls) => <<o>> \o ls \in Once(S)
  <1> DEFINE r == <<o>> \o ls
  <1>1. ls \in Seq(S) /\ <<o>> \in Seq(S) /\ Len(<<o>>) = 1 /\ <<o>>[1] = o
    BY DEF Once
  <1>2. /\ r \in Seq(S) /\ Len(r) = 1 + Len(ls)
        /\ \A i \in 1 .. 1 + Len(ls) : r[i] = IF i <= 1 THEN o ELSE ls[i - 1]
    BY <1>1, ConcatProperties
  <1> HIDE DEF r
  <1>3. /\ Len(ls) \in Nat /\ DOMAIN ls = 1 .. Len(ls) /\ DOMAIN r = 1 .. Len(r)
        /\ \A i \in 1 .. Len(ls) : ls[i] \in ToSet(ls)
        /\ \A p \in ToSet(ls) : \E i \in 1 .. Len(ls) : ls[i] = p
        /\ \A i \in 1 .. Len(r) : r[i] \in ToSet(r)
        /\ \A p \in ToSet(r) : \E i \in 1 .. Len(r) : r[i] = p
        /\ r = <<>> <=> ToSet(r) = {}
    BY <1>1, <1>2, ElementsOf
  <1>4. ASSUME NEW p \in ToSet(r) PROVE p \in {o} \cup ToSet(ls)
    <2>1. PICK i \in 1 .. Len(r) : r[i] = p
      BY <1>3
    <2>2. i > 1 => i - 1 \in 1 .. Len(ls)
      BY <1>2, <1>3
    <2> QED
      BY <1>2, <1>3, <2>1, <2>2
  <1>5. o \in ToSet(r)
    <2>1. 1 \in 1 .. Len(r) /\ r[1] = o
      BY <1>2, <1>3
    <2> QED
      BY <1>3, <2>1
  <1>6. ASSUME NEW p \in ToSet(ls) PROVE p \in ToSet(r)
    <2>1. PICK i \in 1 .. Len(ls) : ls[i] = p
      BY <1>3
    <2>2. i + 1 \in 1 .. Len(r) /\ r[i + 1] = p
      BY <1>2, <1>3, <2>1
    <2> QED
      BY <1>3, <2>2
  <1>7. ASSUME o \notin ToSet(ls) PROVE IsInjective(r)
    <2> SUFFICES ASSUME NEW i \in 1 .. Len(r), NEW j \in 1 .. Len(r), r[i] = r[j] PROVE i = j
      BY <1>3 DEF IsInjective
    <2>1. i > 1 => i - 1 \in 1 .. Len(ls) /\ r[i] = ls[i - 1] /\ r[i] # o
      BY <1>2, <1>3, <1>7
    <2>2. j > 1 => j - 1 \in 1 .. Len(ls) /\ r[j] = ls[j - 1] /\ r[j] # o
      BY <1>2, <1>3, <1>7
    <2>3. i > 1 /\ j > 1 => i - 1 = j - 1
      BY <1>3, <2>1, <2>2 DEF Once, IsInjective
    <2>4. (i = 1 => r[i] = o) /\ (j = 1 => r[j] = o)
      BY <1>2, <1>3
    <2> QED
      BY <2>1, <2>2, <2>3, <2>4
  <1>8. ToSet(r) = {o} \cup ToSet(ls)
    BY <1>4, <1>5, <1>6
  <1> QED
    BY <1>2, <1>3, <1>5, <1>7, <1>8 DEF Once, r

LEMMA RemovedOnce ==
    ASSUME NEW S, NEW ls \in Once(S), NEW o
    PROVE  RemoveFirst(ls, o) \in Once(S) /\ ToSet(RemoveFirst(ls, o)) = ToSet(ls) \ {o}
  <1>1. /\ ls \in Seq(S) /\ Len(ls) \in Nat /\ DOMAIN ls = 1 .. Len(ls)
        /\ \A i \in 1 .. Len(ls) : ls[i] \in ToSet(ls) /\ ls[i] \in S
        /\ \A p \in ToSet(ls) : \E i \in 1 .. Len(ls) : ls[i] = p
        /\ \A i, j \in 1 .. Len(ls) : ls[i] = ls[j] => i = j
    BY ElementsOf DEF Once, IsInjective
  <1>2. CASE ~\E i \in 1 .. Len(ls) : ls[i] = o
    <2>1. RemoveFirst(ls, o) = ls
      BY <1>2 DEF RemoveFirst
    <2>2. o \notin ToSet(ls)
      BY <1>1, <1>2
    <2> QED
      BY <2>1, <2>2
  <1>3. CASE \E i \in 1 .. Len(ls) : ls[i] = o
    <2> DEFINE I == {i \in 1 .. Len(ls) : ls[i] = o}
               k == Min(I)
               a == SubSeq(ls, 1, k - 1)
               b == SubSeq(ls, k + 1, Len(ls))
               r == a \o b
    <2>1. I # {}
      BY <1>3
    <2>2. RemoveFirst(ls, o) = r
      BY <1>3, <2>1 DEF RemoveFirst, RemoveAt, SelectInSeq
    <2>3. k \in 1 .. Len(ls) /\ ls[k] = o
      <3>1. I \in SUBSET (1 .. Len(ls))
        OBVIOUS
      <3>2. Min(I) \in I
        BY <1>1, <2>1, <3>1, FirstOf
      <3> QED
        BY <3>2
    <2> HIDE DEF k, I
    <2>4. /\ a \in Seq(S) /\ Len(a) = k - 1 /\ \A i \in 1 .. k - 1 : a[i] = ls[i]
      <3>1. 1 \in Int /\ k - 1 \in Int /\ \A i \in 1 .. k - 1 : ls[i] \in S
        BY <1>1, <2>3
      <3>2. /\ SubSeq(ls, 1, k - 1) \in Seq(S)
            /\ Len(SubSeq(ls, 1, k - 1)) = IF 1 <= k - 1 THEN (k - 1) - 1 + 1 ELSE 0
            /\ \A i \in 1 .. (k - 1) - 1 + 1 : SubSeq(ls, 1, k - 1)[i] = ls[1 + i - 1]
        BY <3>1, SubSeqProperties
      <3> HIDE DEF a
      <3>3. a \in Seq(S) /\ Len(a) = k - 1
        BY <2>3, <3>2 DEF a
      <3>4. ASSUME NEW i \in 1 .. k - 1 PROVE a[i] = ls[i]
        BY <2>3, <3>2 DEF a
      <3> QED
        BY <3>3, <3>4
    <2>5. /\ b \in Seq(S) /\ Len(b) = Len(ls) - k /\ \A i \in 1 .. Len(ls) - k : b[i] = ls[k + i]
      <3>1. k + 1 \in Int /\ Len(ls) \in Int /\ \A i \in k + 1 .. Len(ls) : ls[i] \in S
        BY <1>1, <2>3
      <3>2. /\ SubSeq(ls, k + 1, Len(ls)) \in Seq(S)
            /\ Len(SubSeq(ls, k + 1, Len(ls))) = IF k + 1 <= Len(ls) THEN Len(ls) - (k + 1) + 1 ELSE 0
            /\ \A i \in 1 .. Len(ls) - (k + 1) + 1 : SubSeq(ls, k + 1, Len(ls))[i] = ls[(k + 1) + i - 1]
        BY <3>1, SubSeqProperties
      <3> HIDE DEF b
      <3>3. b \in Seq(S) /\ Len(b) = Len(ls) - k
        <4>1. Len(b) = IF k + 1 <= Len(ls) THEN Len(ls) - (k + 1) + 1 ELSE 0
          BY <3>2 DEF b
        <4>2. k \in Nat /\ Len(ls) \in Nat /\ k <= Len(ls)
          BY <1>1, <2>3
        <4>3. b \in Seq(S)
          BY <3>2 DEF b
        <4> QED
          BY <4>1, <4>2, <4>3
      <3>4. ASSUME NEW i \in 1 .. Len(ls) - k PROVE b[i] = ls[k + i]
        BY <1>1, <2>3, <3>2 DEF b
      <3> QED
        BY <3>3, <3>4
    <2> HIDE DEF a, b
    <2>6. /\ r \in Seq(S) /\ Len(r) = Len(a) + Len(b)
          /\ \A i \in 1 .. Len(a) + Len(b) : r[i] = IF i <= Len(a) THEN a[i] ELSE b[i - Len(a)]
      BY <2>4, <2>5, ConcatProperties
    <2> HIDE DEF r
    <2>7. Len(r) = Len(ls) - 1
      BY <1>1, <2>3, <2>4, <2>5, <2>6
    <2>8. ASSUME NEW i \in 1 .. Len(r)
          PROVE  \E j \in 1 .. Len(ls) : r[i] = ls[j] /\ j # k /\ j = IF i < k THEN i ELSE i + 1
      <3>1. CASE i < k
        <4>1. i <= Len(a) /\ i \in 1 .. Len(a) + Len(b) /\ i \in 1 .. k - 1 /\ i \in 1 .. Len(ls)
          BY <1>1, <2>3, <2>4, <2>5, <2>7, <3>1
        <4>2. r[i] = ls[i]
          BY <2>4, <2>6, <4>1
        <4> QED
          BY <3>1, <4>1, <4>2, <2>3
      <3>2. CASE ~(i < k)
        <4>1. /\ ~(i <= Len(a)) /\ i \in 1 .. Len(a) + Len(b) /\ i - Len(a) \in 1 .. Len(ls) - k
              /\ k + (i - Len(a)) = i + 1 /\ i + 1 \in 1 .. Len(ls)
          BY <1>1, <2>3, <2>4, <2>5, <2>7, <3>2
        <4>2. r[i] = ls[i + 1]
          BY <2>5, <2>6, <4>1
        <4> QED
          BY <3>2, <4>1, <4>2, <2>3
      <3> QED
        BY <3>1, <3>2
    <2>9. Len(r) \in Nat /\ DOMAIN r = 1 .. Len(r)
      BY <2>6, ElementsOf
    <2>10. IsInjective(r)
      <3> SUFFICES ASSUME NEW i \in 1 .. Len(r), NEW j \in 1 .. Len(r), r[i] = r[j] PROVE i = j
        BY <2>9 DEF IsInjective
      <3>1. PICK x \in 1 .. Len(ls) : r[i] = ls[x] /\ x = IF i < k THEN i ELSE i + 1
        BY <2>8
      <3>2. PICK y \in 1 .. Len(ls) : r[j] = ls[y] /\ y = IF j < k THEN j ELSE j + 1
        BY <2>8
      <3>3. x = y
        BY <1>1, <3>1, <3>2
      <3> QED
        BY <2>3, <2>9, <3>1, <3>2, <3>3
    <2>11. ToSet(r) \subseteq ToSet(ls) \ {o}
      <3> SUFFICES ASSUME NEW p \in ToSet(r) PROVE p \in ToSet(ls) \ {o}
        OBVIOUS
      <3>1. PICK i \in 1 .. Len(r) : r[i] = p
        BY <2>6, ElementsOf
      <3>2. PICK j \in 1 .. Len(ls) : r[i] = ls[j] /\ j # k
        BY <2>8
      <3> QED
        BY <1>1, <2>3, <3>1, <3>2
    <2>12. ToSet(ls) \ {o} \subseteq ToSet(r)
      <3> SUFFICES ASSUME NEW p \in ToSet(ls), p # o PROVE p \in ToSet(r)
        OBVIOUS
      <3>1. PICK j \in 1 .. Len(ls) : ls[j] = p
        BY <1>1
      <3> DEFINE i == IF j < k THEN j ELSE j - 1
      <3>2. j # k /\ i \in 1 .. Len(r)
        BY <1>1, <2>3, <2>7, <3>1
      <3>3. PICK x \in 1 .. Len(ls) : r[i] = ls[x] /\ x = IF i < k THEN i ELSE i + 1
        BY <2>8, <3>2
      <3>4. x = j
        BY <1>1, <2>3, <3>2, <3>3
      <3>5. \A z \in 1 .. Len(r) : r[z] \in ToSet(r)
        BY <2>6, ElementsOf
      <3> QED
        BY <3>1, <3>2, <3>3, <3>4, <3>5
    <2> QED
      BY <2>2, <2>6, <2>10, <2>11, <2>12 DEF Once
  <1> QED
    BY <1>2, <1>3

-----------------------------------------------------------------------------
(* More about sequences *)

LEMMA JoinedOnce ==
    ASSUME NEW S, NEW s \in Once(S), NEW t \in Once(S), ToSet(s) \cap ToSet(t) = {}
    PROVE  s \o t \in Once(S) /\ ToSet(s \o t) = ToSet(s) \cup ToSet(t)
  <1> DEFINE r == s \o t
  <1>1. s \in Seq(S) /\ t \in Seq(S)
    BY DEF Once
  <1>2. /\ r \in Seq(S) /\ Len(r) = Len(s) + Len(t)
        /\ \A i \in 1 .. Len(s) + Len(t) : r[i] = IF i <= Len(s) THEN s[i] ELSE t[i - Len(s)]
    BY <1>1, ConcatProperties
  <1> HIDE DEF r
  <1>3. /\ Len(s) \in Nat /\ DOMAIN s = 1 .. Len(s) /\ Len(t) \in Nat /\ DOMAIN t = 1 .. Len(t)
        /\ DOMAIN r = 1 .. Len(r)
        /\ \A i \in 1 .. Len(s) : s[i] \in ToSet(s)
        /\ \A p \in ToSet(s) : \E i \in 1 .. Len(s) : s[i] = p
        /\ \A i \in 1 .. Len(t) : t[i] \in ToSet(t)
        /\ \A p \in ToSet(t) : \E i \in 1 .. Len(t) : t[i] = p
        /\ \A i \in 1 .. Len(r) : r[i] \in ToSet(r)
        /\ \A p \in ToSet(r) : \E i \in 1 .. Len(r) : r[i] = p
    BY <1>1, <1>2, ElementsOf
  <1>4. ASSUME NEW i \in 1 .. Len(r)
        PROVE  \/ i \in 1 .. Len(s) /\ r[i] = s[i] /\ r[i] \in ToSet(s)
               \/ i - Len(s) \in 1 .. Len(t) /\ r[i] = t[i - Len(s)] /\ r[i] \in ToSet(t)
    BY <1>2, <1>3
  <1>5. ASSUME NEW p \in ToSet(r) PROVE p \in ToSet(s) \cup ToSet(t)
    BY <1>3, <1>4
  <1>6. ASSUME NEW p \in ToSet(s) PROVE p \in ToSet(r)
    <2>1. PICK i \in 1 .. Len(s) : s[i] = p
      BY <1>3
    <2>2. i \in 1 .. Len(r) /\ r[i] = p
      BY <1>2, <1>3, <2>1
    <2> QED
      BY <1>3, <2>2
  <1>7. ASSUME NEW p \in ToSet(t) PROVE p \in ToSet(r)
    <2>1. PICK i \in 1 .. Len(t) : t[i] = p
      BY <1>3
    <2>2. /\ Len(s) + i \in 1 .. Len(s) + Len(t) /\ ~(Len(s) + i <= Len(s))
          /\ (Len(s) + i) - Len(s) = i
      BY <1>3
    <2>3. r[Len(s) + i] = p
      BY <1>2, <2>1, <2>2
    <2> QED
      BY <1>2, <1>3, <2>2, <2>3
  <1>8. ASSUME NEW i \in 1 .. Len(r), NEW j \in 1 .. Len(r), r[i] = r[j] PROVE i = j
    <2>1. \/ i \in 1 .. Len(s) /\ j \in 1 .. Len(s) /\ s[i] = s[j]
          \/ i - Len(s) \in 1 .. Len(t) /\ j - Len(s) \in 1 .. Len(t) /\ t[i - Len(s)] = t[j - Len(s)]
      BY <1>4, <1>8
    <2>2. CASE i \in 1 .. Len(s) /\ j \in 1 .. Len(s) /\ s[i] = s[j]
      BY <1>3, <2>2 DEF Once, IsInjective
    <2>3. CASE i - Len(s) \in 1 .. Len(t) /\ j - Len(s) \in 1 .. Len(t) /\ t[i - Len(s)] = t[j - Len(s)]
      <3>1. i - Len(s) = j - Len(s)
        BY <1>3, <2>3 DEF Once, IsInjective
      <3> QED
        BY <1>3, <3>1
    <2> QED
      BY <2>1, <2>2, <2>3
  <1>9. IsInjective(r)
    BY <1>3, <1>8 DEF IsInjective
  <1>10. ToSet(r) = ToSet(s) \cup ToSet(t)
    BY <1>5, <1>6, <1>7
  <1> QED
    BY <1>2, <1>9, <1>10 DEF Once, r

LEMMA ReversedOnce ==
    ASSUME NEW S, NEW s \in Once(S)
    PROVE  Reverse(s) \in Once(S) /\ ToSet(Reverse(s)) = ToSet(s)
  <1> DEFINE r == Reverse(s)
             n == Len(s)
  <1>1. /\ s \in Seq(S) /\ n \in Nat /\ DOMAIN s = 1 .. n
        /\ \A i \in 1 .. n : s[i] \in S /\ s[i] \in ToSet(s)
        /\ \A p \in ToSet(s) : \E i \in 1 .. n : s[i] = p
        /\ \A i, j \in 1 .. n : s[i] = s[j] => i = j
    BY ElementsOf DEF Once, IsInjective
  <1>2. r = [i \in 1 .. n |-> s[(n - i) + 1]]
    BY DEF Reverse
  <1> HIDE DEF r, n
  <1>3. \A i \in 1 .. n : (n - i) + 1 \in 1 .. n /\ n - ((n - i) + 1) + 1 = i
    BY <1>1
  <1>4. \A i \in 1 .. n : r[i] = s[(n - i) + 1] /\ r[i] \in S
    BY <1>1, <1>2, <1>3
  <1>5. r \in Seq(S) /\ DOMAIN r = 1 .. n
    <2>1. r \in [1 .. n -> S]
      BY <1>2, <1>4
    <2> QED
      BY <1>1, <2>1, SeqDef
  <1>6. IsInjective(r)
    <2> SUFFICES ASSUME NEW i \in 1 .. n, NEW j \in 1 .. n, r[i] = r[j] PROVE i = j
      BY <1>5 DEF IsInjective
    <2>1. (n - i) + 1 = (n - j) + 1
      BY <1>1, <1>3, <1>4
    <2> QED
      BY <1>1, <2>1
  <1>7. ASSUME NEW p \in ToSet(r) PROVE p \in ToSet(s)
    <2>1. PICK i \in 1 .. n : r[i] = p
      BY <1>5, <1>7 DEF ToSet
    <2> QED
      BY <1>1, <1>3, <1>4, <2>1
  <1>8. ASSUME NEW p \in ToSet(s) PROVE p \in ToSet(r)
    <2>1. PICK i \in 1 .. n : s[i] = p
      BY <1>1, <1>8
    <2>2. (n - i) + 1 \in 1 .. n /\ r[(n - i) + 1] = p
      BY <1>3, <1>4, <2>1
    <2> QED
      BY <1>5, <2>2 DEF ToSet
  <1> QED
    BY <1>5, <1>6, <1>7, <1>8 DEF Once, r

-----------------------------------------------------------------------------
(* The rows that panels take of a monitor *)

Total(P, S) == MapThenSumSet(LAMBDA p : P[p].cur.zone, S)

Pick(s) == CHOOSE x \in s : TRUE

Summing(h, z, S) ==
    /\ h[{}] = 0
    /\ \A s \in SUBSET S : s # {} => h[s] = z[Pick(s)] + h[s \ {Pick(s)}]

LEMMA Picked ==
    ASSUME NEW s, s # {}
    PROVE  Pick(s) \in s
  BY DEF Pick

SumsUp(g, z, S) ==
    \A s \in SUBSET S : g[s] = IF s = {} THEN 0 ELSE z[Pick(s)] + g[s \ {Pick(s)}]

LEMMA SumExists ==
    ASSUME NEW S, IsFiniteSet(S), NEW z \in [S -> Nat]
    PROVE  \E g \in [SUBSET S -> Nat] : SumsUp(g, z, S)
  <1> DEFINE step == [p \in Nat \X S |-> z[p[2]] + p[1]]
             pick == [s \in SUBSET S |-> Pick(s)]
  <1>1. step \in [Nat \X S -> Nat] /\ \A n \in Nat, x \in S : step[<<n, x>>] = z[x] + n
    OBVIOUS
  <1>2. \A s \in SUBSET S : pick[s] = Pick(s) /\ (s # {} => pick[s] \in s)
    BY Picked
  <1> HIDE DEF step, pick
  <1>3. \E g \in [SUBSET S -> Nat] : Iterated(g, S, pick, 0, step, SUBSET S)
    BY <1>1, <1>2, Iterates
  <1>4. PICK g \in [SUBSET S -> Nat] : Iterated(g, S, pick, 0, step, SUBSET S)
    BY <1>3
  <1>5. ASSUME NEW s \in SUBSET S
        PROVE  g[s] = IF s = {} THEN 0 ELSE z[Pick(s)] + g[s \ {Pick(s)}]
    <2>1. CASE s = {}
      BY <1>4, <2>1 DEF Iterated
    <2>2. CASE s # {}
      <3>1. Pick(s) \in S /\ pick[s] = Pick(s) /\ s \ {Pick(s)} \in SUBSET S
        BY <1>2, <2>2
      <3>2. g[s] = step[<<g[s \ {Pick(s)}], Pick(s)>>]
        BY <1>4, <2>2, <3>1 DEF Iterated
      <3>3. g[s \ {Pick(s)}] \in Nat
        BY <1>4, <3>1
      <3>4. step[<<g[s \ {Pick(s)}], Pick(s)>>] = z[Pick(s)] + g[s \ {Pick(s)}]
        BY <1>1, <3>1, <3>3
      <3> QED
        BY <2>2, <3>2, <3>4
    <2> QED
      BY <2>1, <2>2
  <1> QED
    BY <1>4, <1>5 DEF SumsUp

ZonesOf(z, P, S) == \A p \in S : z[p] = P[p].cur.zone

LEMMA TotalSteps ==
    ASSUME NEW P, NEW S, IsFiniteSet(S), NEW z \in [S -> Nat], ZonesOf(z, P, S)
    PROVE  \E h : Total(P, S) = h[S] /\ Summing(h, z, S)
  <1>1. \A s \in SUBSET S : s # {} => Pick(s) \in S
    BY Picked
  <1>2. PICK g \in [SUBSET S -> Nat] : SumsUp(g, z, S)
    BY SumExists
  <1> DEFINE F(f) == [s \in SUBSET S |-> IF s = {} THEN 0 ELSE P[Pick(s)].cur.zone + f[s \ {Pick(s)}]]
  <1>3. g = F(g)
    <2>1. ASSUME NEW s \in SUBSET S
          PROVE  g[s] = IF s = {} THEN 0 ELSE P[Pick(s)].cur.zone + g[s \ {Pick(s)}]
      BY <1>1, <1>2 DEF ZonesOf, SumsUp
    <2> QED
      BY <1>2, <2>1
  <1> DEFINE h == CHOOSE f : f = F(f)
  <1>4. h = F(h)
    BY <1>3
  <1>5. Total(P, S) = h[S]
    BY DEF Total, MapThenSumSet, MapThenFoldSet, Pick
  <1> HIDE DEF h
  <1>6. h[{}] = 0
    BY <1>4
  <1>7. ASSUME NEW s \in SUBSET S, s # {}
        PROVE  h[s] = z[Pick(s)] + h[s \ {Pick(s)}]
    <2>1. h[s] = P[Pick(s)].cur.zone + h[s \ {Pick(s)}]
      BY <1>4, <1>7
    <2>2. Pick(s) \in S
      BY <1>1, <1>7
    <2> QED
      BY <2>1, <2>2 DEF ZonesOf
  <1>8. Summing(h, z, S)
    BY <1>6, <1>7 DEF Summing
  <1> QED
    BY <1>5, <1>8

LEMMA SumsAgree ==
    ASSUME NEW h, NEW z, NEW S, NEW g, NEW y, NEW T, NEW U, IsFiniteSet(U), U \subseteq S, U \subseteq T,
           Summing(h, z, S), Summing(g, y, T), \A x \in U : z[x] = y[x]
    PROVE  h[U] = g[U]
  <1> DEFINE B == {s \in SUBSET U : h[s] = g[s]}
  <1>1. {} \in B
    BY DEF Summing
  <1>2. ASSUME NEW s \in SUBSET U, s # {}, \A x \in s : s \ {x} \in B PROVE s \in B
    <2>1. Pick(s) \in s
      BY <1>2, Picked
    <2>2. h[s] = z[Pick(s)] + h[s \ {Pick(s)}] /\ g[s] = y[Pick(s)] + g[s \ {Pick(s)}]
      BY <1>2 DEF Summing
    <2>3. h[s \ {Pick(s)}] = g[s \ {Pick(s)}] /\ z[Pick(s)] = y[Pick(s)]
      BY <1>2, <2>1
    <2> QED
      BY <2>2, <2>3
  <1> HIDE DEF B
  <1>3. U \in B
    BY <1>1, <1>2, Shrinks
  <1> QED
    BY <1>3 DEF B

LEMMA SumAdds ==
    ASSUME NEW S, IsFiniteSet(S), NEW z \in [S -> Nat], NEW h, Summing(h, z, S)
    PROVE  h[S] \in Nat /\ \A x \in S : h[S] = z[x] + h[S \ {x}] /\ h[S \ {x}] \in Nat
  <1> DEFINE B == {s \in SUBSET S : h[s] \in Nat /\ \A x \in s : h[s] = z[x] + h[s \ {x}] /\ h[s \ {x}] \in Nat}
  <1>1. {} \in B
    BY DEF Summing
  <1>2. ASSUME NEW s \in SUBSET S, s # {}, \A x \in s : s \ {x} \in B PROVE s \in B
    <2> DEFINE c == Pick(s)
    <2>1. c \in s /\ c \in S
      BY <1>2, Picked
    <2>2. h[s] = z[c] + h[s \ {c}]
      BY <1>2 DEF Summing
    <2> HIDE DEF c
    <2>3. h[s \ {c}] \in Nat /\ z[c] \in Nat
      BY <1>2, <2>1
    <2>4. ASSUME NEW x \in s, x # c PROVE h[s] = z[x] + h[s \ {x}] /\ h[s \ {x}] \in Nat
      <3> DEFINE u == (s \ {c}) \ {x}
      <3>1. (s \ {x}) \ {c} = u
        OBVIOUS
      <3>2. x \in s \ {c} /\ c \in s \ {x} /\ s \ {c} \in B /\ s \ {x} \in B
        BY <1>2, <2>1, <2>4
      <3>3. h[s \ {c}] = z[x] + h[u] /\ h[u] \in Nat
        BY <3>2
      <3>4. h[s \ {x}] = z[c] + h[u] /\ h[s \ {x}] \in Nat
        BY <3>1, <3>2
      <3>5. z[x] \in Nat
        OBVIOUS
      <3> HIDE DEF u
      <3> QED
        BY <2>2, <2>3, <3>3, <3>4, <3>5
    <2>5. \A x \in s : h[s] = z[x] + h[s \ {x}] /\ h[s \ {x}] \in Nat
      BY <2>2, <2>3, <2>4
    <2>6. h[s] \in Nat
      BY <2>2, <2>3
    <2> QED
      BY <2>5, <2>6
  <1> HIDE DEF B
  <1>3. S \in B
    BY <1>1, <1>2, Shrinks
  <1> QED
    BY <1>3 DEF B

LEMMA TotalIs ==
    ASSUME NEW P, NEW S, IsFiniteSet(S), \A p \in S : P[p].cur.zone \in Nat
    PROVE  /\ Total(P, S) \in Nat
           /\ S = {} => Total(P, S) = 0
           /\ \A x \in S : Total(P, S) = P[x].cur.zone + Total(P, S \ {x})
  <1> DEFINE z == [p \in S |-> P[p].cur.zone]
  <1>1. z \in [S -> Nat] /\ ZonesOf(z, P, S) /\ \A p \in S : z[p] = P[p].cur.zone
    BY DEF ZonesOf
  <1> HIDE DEF z
  <1>2. PICK h : Total(P, S) = h[S] /\ Summing(h, z, S)
    BY <1>1, TotalSteps
  <1>3. h[S] \in Nat /\ \A x \in S : h[S] = z[x] + h[S \ {x}] /\ h[S \ {x}] \in Nat
    BY <1>1, <1>2, SumAdds
  <1>4. ASSUME NEW x \in S PROVE Total(P, S \ {x}) = h[S \ {x}]
    <2> DEFINE T == S \ {x}
               y == [p \in T |-> P[p].cur.zone]
    <2>1. y \in [T -> Nat] /\ ZonesOf(y, P, T) /\ \A p \in T : y[p] = P[p].cur.zone
      BY DEF ZonesOf
    <2>2. IsFiniteSet(T) /\ T \subseteq S /\ T \subseteq T
      BY FS_Subset
    <2>3. \A p \in T : z[p] = y[p]
      BY <1>1
    <2> HIDE DEF T, y
    <2>4. PICK g : Total(P, T) = g[T] /\ Summing(g, y, T)
      BY <2>1, <2>2, TotalSteps
    <2>5. h[T] = g[T]
      BY <1>2, <2>2, <2>3, <2>4, SumsAgree
    <2> QED
      BY <2>4, <2>5 DEF T
  <1>5. S = {} => h[S] = 0
    BY <1>2 DEF Summing
  <1> QED
    BY <1>1, <1>2, <1>3, <1>4, <1>5

LEMMA TotalSame ==
    ASSUME NEW P, NEW Q, NEW S, IsFiniteSet(S), \A p \in S : P[p].cur.zone \in Nat /\ Q[p].cur.zone = P[p].cur.zone
    PROVE  Total(Q, S) = Total(P, S)
  <1> DEFINE z == [p \in S |-> P[p].cur.zone]
  <1>1. z \in [S -> Nat] /\ ZonesOf(z, P, S) /\ ZonesOf(z, Q, S)
    BY DEF ZonesOf
  <1> HIDE DEF z
  <1>2. PICK h : Total(P, S) = h[S] /\ Summing(h, z, S)
    BY <1>1, TotalSteps
  <1>3. PICK g : Total(Q, S) = g[S] /\ Summing(g, z, S)
    BY <1>1, TotalSteps
  <1>4. h[S] = g[S]
    BY <1>2, <1>3, SumsAgree
  <1> QED
    BY <1>2, <1>3, <1>4

-----------------------------------------------------------------------------
(* What panels, monitors, the focus and popups can be *)

Phases == {"none", "new", "asked", "mapped", "bare"}

PanelRecords == [phase : Phases, on : Monitors \cup {Nothing}, cur : LayerStates \cup {Nothing},
                 layer : 1 .. Layers, zone : Zones \cup {0}, asks : BOOLEAN, y : Nat]

Shaped(r) ==
    /\ r.phase = "none" => r = NoPanel
    /\ r.phase # "none" => r.on \in Monitors
    /\ r.phase \in {"asked", "mapped", "bare"} => r.cur \in LayerStates

PanelKinds == {r \in PanelRecords : Shaped(r)}
PanelStates == [Panels -> PanelKinds]

Areas == [y : Nat, h : Nat]
ListStates == [1 .. Layers -> Once(Panels)]
MonitorKinds == [plugged : BOOLEAN, on : BOOLEAN, height : Nat, usable : Areas, pending : BOOLEAN,
                 laid : Areas, list : ListStates]
MonitorStates == [Monitors -> MonitorKinds]

SeatStates == [on : Monitors, view : BOOLEAN, layer : [Monitors -> Panels \cup {Nothing}],
               keyboard : Panels \cup {"view", Nothing}]
PopupKinds == [parent : Panels \cup Popups \cup {Nothing}, owner : Panels \cup {Nothing}]
PopupStates == [Popups -> PopupKinds]

Worlds == [panel : PanelStates, monitor : MonitorStates, seat : SeatStates, popup : PopupStates,
           fault : {{}}]

\* The panels of an output that are in its lists, in all and in one; those that reserve a strip.
InAList(r) == r.phase \in {"new", "asked", "mapped"}
Stacked(P, o) == {p \in Panels : InAList(P[p]) /\ P[p].on = o}
Layered(P, o, l) == {p \in Panels : InAList(P[p]) /\ P[p].on = o /\ P[p].layer = l}
Reserves(r) == r.phase = "mapped" /\ r.cur.zone > 0
Reserving(P, o) == {p \in Panels : Reserves(P[p]) /\ P[p].on = o}

Listing(P, M) == \A o \in Monitors : \A l \in 1 .. Layers : ToSet(M[o].list[l]) = Layered(P, o, l)

LEMMA FiniteLayers == Layers \in Nat /\ 1 .. Layers # {} /\ 1 \in 1 .. Layers
  BY SpaceAssumption

LEMMA MaxZero ==
    ASSUME NEW x \in Int
    PROVE  Max({0, x}) = IF x > 0 THEN x ELSE 0
  <1> DEFINE m == IF x > 0 THEN x ELSE 0
  <1>1. m \in {0, x} /\ m >= 0 /\ m >= x
    OBVIOUS
  <1>2. \A k \in {0, x} : (\A j \in {0, x} : k >= j) => k = m
    OBVIOUS
  <1> HIDE DEF m
  <1>3. Max({0, x}) \in {0, x} /\ \A j \in {0, x} : Max({0, x}) >= j
    <2>1. \E k \in {0, x} : \A j \in {0, x} : k >= j
      BY <1>1
    <2> QED
      BY <2>1 DEF Max
  <1>4. Max({0, x}) = m
    BY <1>2, <1>3
  <1> QED
    BY <1>4 DEF m

LEMMA StripTaken ==
    ASSUME NEW x \in Int, NEW t \in Nat
    PROVE  Max({0, Max({0, x}) - t}) = Max({0, x - t}) /\ Max({0, x}) \in Nat
  <1>1. Max({0, x}) = IF x > 0 THEN x ELSE 0
    BY MaxZero
  <1>2. Max({0, x}) - t \in Int /\ x - t \in Int
    BY <1>1
  <1>3. Max({0, Max({0, x}) - t}) = IF Max({0, x}) - t > 0 THEN Max({0, x}) - t ELSE 0
    BY <1>2, MaxZero
  <1>4. Max({0, x - t}) = IF x - t > 0 THEN x - t ELSE 0
    BY <1>2, MaxZero
  <1> QED
    BY <1>1, <1>3, <1>4

LEMMA BaseType ==
    ASSUME NEW h \in Nat
    PROVE  Base(h) \in Areas /\ Base(h).y = BarHeight /\ Base(h).h = Max({0, h - BarHeight})
  <1>1. BarHeight \in Nat
    BY SpaceAssumption
  <1>2. Max({0, h - BarHeight}) \in Nat
    <2>1. h - BarHeight \in Int
      BY <1>1
    <2> DEFINE x == h - BarHeight
    <2> HIDE DEF x
    <2>2. Max({0, x}) = IF x > 0 THEN x ELSE 0
      BY <2>1, MaxZero DEF x
    <2>3. Max({0, x}) \in Nat
      BY <2>1, <2>2 DEF x
    <2> QED
      BY <2>3 DEF x
  <1> QED
    BY <1>1, <1>2 DEF Base, Areas

-----------------------------------------------------------------------------
(* The stack of an output is its lists, one after the other *)

LEMMA StackSteps ==
    ASSUME NEW M \in MonitorStates, NEW o \in Monitors
    PROVE  \E c \in [0 .. Layers -> Seq(Panels)] :
               /\ c[0] = <<>> /\ c[Layers] = Stack(M, o)
               /\ \A i \in 1 .. Layers : c[i] = c[i - 1] \o M[o].list[i]
  <1> DEFINE ls == M[o].list
             A == Seq(Panels)
             D == DOMAIN ls
             F(f) == [s \in SUBSET D |-> IF s = {} THEN <<>> ELSE f[s \ {Max(s)}] \o ls[Max(s)]]
             step == [p \in A \X D |-> p[1] \o ls[p[2]]]
             pick == [s \in SUBSET D |-> Max(s)]
             n == Layers
             base == <<>>
  <1>1. n \in Nat /\ D = 1 .. n /\ \A i \in D : ls[i] \in A
    <2>1. ls \in ListStates
      BY DEF MonitorStates, MonitorKinds
    <2> QED
      BY <2>1, FiniteLayers DEF ListStates, Once
  <1> HIDE DEF ls
  <1>2. step \in [A \X D -> A] /\ base \in A
    <2>1. \A p \in A \X D : p[1] \o ls[p[2]] \in A
      <3> SUFFICES ASSUME NEW p \in A \X D PROVE p[1] \o ls[p[2]] \in A
        OBVIOUS
      <3>1. p[1] \in Seq(Panels) /\ ls[p[2]] \in Seq(Panels)
        BY <1>1
      <3> QED
        BY <3>1, ConcatProperties
    <2> QED
      BY <2>1
  <1>3. \A s \in SUBSET D : s # {} => pick[s] \in s
    BY <1>1, MaxUpTo
  <1>4. IsFiniteSet(D)
    BY <1>1, FS_Interval
  <1>5. \A e \in A, i \in D : step[<<e, i>>] = e \o ls[i]
    OBVIOUS
  <1>6. \A s \in SUBSET D : pick[s] = Max(s)
    OBVIOUS
  <1> HIDE DEF D, step, pick, A, base
  <1>7. PICK g \in [SUBSET D -> A] : Iterated(g, D, pick, base, step, SUBSET D)
    BY <1>2, <1>3, <1>4, Iterates
  <1>8. g = F(g)
    <2>1. ASSUME NEW s \in SUBSET D
          PROVE  g[s] = IF s = {} THEN <<>> ELSE g[s \ {Max(s)}] \o ls[Max(s)]
      <3>1. CASE s = {}
        BY <1>7, <3>1 DEF Iterated, base
      <3>2. CASE s # {}
        <4>1. Max(s) \in D /\ pick[s] = Max(s) /\ s \ {Max(s)} \in SUBSET D
          BY <1>3, <1>6, <3>2
        <4>2. g[s] = step[<<g[s \ {Max(s)}], Max(s)>>]
          BY <1>7, <3>2, <4>1 DEF Iterated
        <4>3. g[s \ {Max(s)}] \in A
          BY <1>7, <4>1
        <4> QED
          BY <1>5, <3>2, <4>1, <4>2, <4>3
      <3> QED
        BY <3>1, <3>2
    <2> QED
      BY <1>7, <2>1
  <1> DEFINE h == CHOOSE f : f = F(f)
  <1>9. h = F(h)
    BY <1>8
  <1>10. Stack(M, o) = h[D]
    BY DEF Stack, FoldLeft, MapThenFoldSet, D, ls
  <1> HIDE DEF h
  <1>11. h[{}] = base
    BY <1>9 DEF base
  <1>12. ASSUME NEW s \in SUBSET D, s # {}, h[s \ {Max(s)}] \in A
         PROVE  h[s] = step[<<h[s \ {Max(s)}], Max(s)>>]
    <2>1. h[s] = h[s \ {Max(s)}] \o ls[Max(s)]
      BY <1>9, <1>12
    <2>2. Max(s) \in D
      BY <1>3, <1>6, <1>12
    <2> QED
      BY <1>5, <1>12, <2>1, <2>2
  <1> HIDE DEF F, n
  <1>16. n \in Nat /\ step \in [A \X (1 .. n) -> A] /\ base \in A
    BY <1>1, <1>2
  <1>17. Folding(h, n, A, base, step)
    BY <1>1, <1>11, <1>12 DEF Folding
  <1>13. \E c \in [0 .. n -> A] : Chain(c, n, base, h[1 .. n], step)
    BY <1>16, <1>17, FoldsUp
  <1>14. PICK c \in [0 .. n -> A] :
            /\ c[0] = base /\ c[n] = h[1 .. n]
            /\ \A i \in 1 .. n : c[i] = step[<<c[i - 1], i>>]
    BY <1>13 DEF Chain
  <1>15. ASSUME NEW i \in 1 .. n PROVE c[i] = c[i - 1] \o ls[i]
    <2>1. i - 1 \in 0 .. n /\ i \in D
      BY <1>1
    <2> QED
      BY <1>5, <1>14, <2>1
  <1> QED
    BY <1>1, <1>10, <1>14, <1>15 DEF n, A, base, ls

LEMMA StackIs ==
    ASSUME NEW P, NEW M \in MonitorStates, Listing(P, M), NEW o \in Monitors, P \in PanelStates
    PROVE  Stack(M, o) \in Once(Panels) /\ ToSet(Stack(M, o)) = Stacked(P, o)
  <1> DEFINE n == Layers
             Upto(i) == {p \in Panels : InAList(P[p]) /\ P[p].on = o /\ P[p].layer \in 1 .. i}
  <1>1. PICK c \in [0 .. n -> Seq(Panels)] :
               /\ c[0] = <<>> /\ c[n] = Stack(M, o)
               /\ \A i \in 1 .. n : c[i] = c[i - 1] \o M[o].list[i]
    BY StackSteps
  <1>2. n \in Nat
    BY FiniteLayers
  <1>3. \A i \in 1 .. n : M[o].list[i] \in Once(Panels) /\ ToSet(M[o].list[i]) = Layered(P, o, i)
    BY DEF MonitorStates, MonitorKinds, ListStates, Listing
  <1>4. \A p \in Panels : P[p].layer \in 1 .. n
    BY DEF PanelStates, PanelKinds, PanelRecords
  <1> DEFINE B == {i \in 0 .. n : c[i] \in Once(Panels) /\ ToSet(c[i]) = Upto(i)}
  <1>5. 0 \in B
    <2>1. <<>> \in Seq(Panels) /\ DOMAIN <<>> = {}
      OBVIOUS
    <2>2. <<>> \in Once(Panels) /\ ToSet(<<>>) = {}
      BY <2>1 DEF Once, IsInjective, ToSet
    <2>3. Upto(0) = {}
      OBVIOUS
    <2> QED
      BY <1>1, <1>2, <2>2, <2>3
  <1>6. ASSUME NEW i \in 1 .. n, i - 1 \in B PROVE i \in B
    <2> DEFINE b == c[i - 1]
               t == M[o].list[i]
    <2>1. b \in Once(Panels) /\ ToSet(b) = Upto(i - 1)
      BY <1>6
    <2>2. t \in Once(Panels) /\ ToSet(t) = Layered(P, o, i)
      BY <1>3
    <2>3. Upto(i - 1) \cap Layered(P, o, i) = {}
      BY <1>2 DEF Layered
    <2>4. \A k \in 1 .. n : k \in 1 .. i <=> (k \in 1 .. i - 1 \/ k = i)
      BY <1>2
    <2>5. Upto(i - 1) \cup Layered(P, o, i) = Upto(i)
      BY <1>2, <1>4, <2>4 DEF Layered
    <2>6. c[i] = b \o t
      BY <1>1
    <2> HIDE DEF b, t, Upto
    <2>7. b \o t \in Once(Panels) /\ ToSet(b \o t) = ToSet(b) \cup ToSet(t)
      BY <2>1, <2>2, <2>3, JoinedOnce
    <2>8. i \in 0 .. n
      BY <1>2
    <2> QED
      BY <2>1, <2>2, <2>5, <2>6, <2>7, <2>8
  <1>7. Upto(n) = Stacked(P, o)
    BY <1>4 DEF Stacked
  <1> HIDE DEF B, n
  <1>8. \A i \in 0 .. n : i \in B
    BY <1>2, <1>5, <1>6, Climbs
  <1>9. n \in B
    BY <1>2, <1>8
  <1> QED
    BY <1>1, <1>7, <1>9 DEF B

-----------------------------------------------------------------------------
(* Arranging an output *)

Configured(r, y) == [r EXCEPT !.y = y, !.asks = FALSE]
Strip(r) == IF Reserves(r) THEN r.cur.zone ELSE 0
RowOf(r, area) == IF r.cur.zone = -1 THEN 0 ELSE area.y

\* What is arranged, S being the panels on the output.
Desks(S) == {g \in [panel : PanelStates, usable : Areas, fault : {{}}] :
                \A p \in S : g.panel[p].phase \in {"asked", "mapped"}}

LEMMA StripIs ==
    ASSUME NEW r \in PanelKinds
    PROVE  Strip(r) \in Nat /\ (Reserves(r) => r.cur.zone \in Nat /\ Strip(r) = r.cur.zone)
  <1>1. Reserves(r) => r.cur.zone \in Zones /\ r.cur.zone > 0
    BY DEF Reserves, PanelKinds, Shaped, LayerStates
  <1>2. \A x \in Zones : x \in Int /\ (x > 0 => x \in Nat)
    BY SpaceAssumption
  <1> QED
    BY <1>1, <1>2 DEF Strip

\* What a configure leaves of a panel.
Alike(t, r) ==
    t.phase = r.phase /\ t.on = r.on /\ t.cur = r.cur /\ t.layer = r.layer /\ t.zone = r.zone
Rowing(t, r, y) == t \in PanelKinds /\ Alike(t, r) /\ t.y = y /\ t.asks = FALSE

LEMMA ConfiguredIs ==
    ASSUME NEW r \in PanelKinds, r.phase # "none", NEW y \in Nat
    PROVE  Rowing(Configured(r, y), r, y)
  <1> DEFINE t == Configured(r, y)
  <1>1. r \in PanelRecords /\ Shaped(r)
    BY DEF PanelKinds
  <1>2. /\ t \in PanelRecords /\ t.phase = r.phase /\ t.on = r.on /\ t.cur = r.cur
        /\ t.layer = r.layer /\ t.zone = r.zone /\ t.y = y /\ t.asks = FALSE
    BY <1>1 DEF Configured, PanelRecords
  <1>3. Shaped(t)
    BY <1>1, <1>2 DEF Shaped
  <1> QED
    BY <1>2, <1>3 DEF PanelKinds, Rowing, Alike

Configuring(t, g, p) ==
    /\ \A q \in Panels : t.panel[q] = IF q = p THEN Configured(g.panel[p], RowOf(g.panel[p], g.usable))
                                      ELSE g.panel[q]
    /\ t.usable.y = g.usable.y + Strip(g.panel[p])
    /\ t.usable.h = Max({0, g.usable.h - Strip(g.panel[p])})

LEMMA ConfigureIs ==
    ASSUME NEW S \in SUBSET Panels, NEW g \in Desks(S), NEW p \in S
    PROVE  Configure(g, p) \in Desks(S) /\ Configuring(Configure(g, p), g, p)
  <1> DEFINE r == g.panel[p]
             y == RowOf(r, g.usable)
             k == Strip(r)
             c == Configured(r, y)
             a == [y |-> g.usable.y + k, h |-> Max({0, g.usable.h - k})]
             t == Configure(g, p)
  <1>1. /\ g.panel \in PanelStates /\ g.usable \in Areas /\ g.fault = {} /\ r \in PanelKinds
        /\ r.phase \in {"asked", "mapped"}
        /\ g \in [panel : PanelStates, usable : Areas, fault : {{}}]
    BY DEF Desks, PanelStates
  <1>2. y \in Nat
    BY <1>1 DEF RowOf, Areas
  <1>3. k \in Nat
    BY <1>1, StripIs
  <1>4. a \in Areas
    <2>1. g.usable.y + k \in Nat
      BY <1>1, <1>3 DEF Areas
    <2>2. g.usable.h - k \in Int
      BY <1>1, <1>3 DEF Areas
    <2>3. Max({0, g.usable.h - k}) \in Nat
      BY <2>2, StripTaken, <1>3
    <2> QED
      BY <2>1, <2>3 DEF Areas
  <1>5. c \in PanelKinds /\ c.phase = r.phase
    <2>1. r.phase # "none"
      BY <1>1
    <2> HIDE DEF r, y
    <2>2. Rowing(c, r, y)
      BY <1>1, <1>2, <2>1, ConfiguredIs
    <2> QED
      BY <2>2 DEF Rowing, Alike
  <1>6. t = [g EXCEPT !.panel = [g.panel EXCEPT ![p] = c], !.usable = a]
    BY <1>1 DEF Configure, Configured, RowOf, Strip, Reserves
  <1>7. p \in Panels
    OBVIOUS
  <1> HIDE DEF c, a, k, y, r, t
  <1>8. [g.panel EXCEPT ![p] = c] \in PanelStates
    BY <1>1, <1>5 DEF PanelStates
  <1>9. /\ t.panel = [g.panel EXCEPT ![p] = c] /\ t.usable = a /\ t.fault = {}
        /\ t \in [panel : PanelStates, usable : Areas, fault : {{}}]
    BY <1>1, <1>4, <1>6, <1>8
  <1>10. \A q \in Panels : t.panel[q] = IF q = p THEN c ELSE g.panel[q]
    BY <1>1, <1>9 DEF PanelStates
  <1>11. \A q \in S : t.panel[q].phase \in {"asked", "mapped"}
    BY <1>1, <1>5, <1>10 DEF Desks
  <1>12. t.usable.y = g.usable.y + k /\ t.usable.h = Max({0, g.usable.h - k})
    BY <1>9 DEF a
  <1> QED
    BY <1>9, <1>10, <1>11, <1>12 DEF Desks, Configuring, c, y, k, r, t

OneByOne(c, d, g, ls) ==
    /\ c[0] = d /\ c[Len(ls)] = g
    /\ \A i \in 1 .. Len(ls) : c[i] = Configure(c[i - 1], ls[i])

\* The panels that are arranged, as the stack has them one after the other.
LEMMA ArrangeSteps ==
    ASSUME NEW S \in SUBSET Panels, NEW d \in Desks(S), NEW ls \in Seq(Panels), ToSet(ls) = S
    PROVE  \E c \in [0 .. Len(ls) -> Desks(S)] : OneByOne(c, d, ConfigureAll(d, ls), ls)
  <1> DEFINE A == Desks(S)
             D == DOMAIN ls
             F(f) == [s \in SUBSET D |-> IF s = {} THEN d ELSE Configure(f[s \ {Max(s)}], ls[Max(s)])]
             step == [p \in A \X D |-> Configure(p[1], ls[p[2]])]
             pick == [s \in SUBSET D |-> Max(s)]
             n == Len(ls)
  <1>1. n \in Nat /\ D = 1 .. n /\ \A i \in D : ls[i] \in S
    BY ElementsOf
  <1>2. step \in [A \X D -> A]
    <2> SUFFICES ASSUME NEW p \in A \X D PROVE Configure(p[1], ls[p[2]]) \in A
      OBVIOUS
    <2>1. p[1] \in Desks(S) /\ ls[p[2]] \in S
      BY <1>1
    <2> QED
      BY <2>1, ConfigureIs
  <1>3. \A s \in SUBSET D : s # {} => pick[s] \in s
    BY <1>1, MaxUpTo
  <1>4. IsFiniteSet(D)
    BY <1>1, FS_Interval
  <1>5. \A e \in A, i \in D : step[<<e, i>>] = Configure(e, ls[i])
    OBVIOUS
  <1>6. \A s \in SUBSET D : pick[s] = Max(s)
    OBVIOUS
  <1>0. d \in A
    OBVIOUS
  <1> HIDE DEF D, step, pick, A
  <1>7. PICK g \in [SUBSET D -> A] : Iterated(g, D, pick, d, step, SUBSET D)
    BY <1>0, <1>2, <1>3, <1>4, Iterates
  <1>8. g = F(g)
    <2>1. ASSUME NEW s \in SUBSET D
          PROVE  g[s] = IF s = {} THEN d ELSE Configure(g[s \ {Max(s)}], ls[Max(s)])
      <3>1. CASE s = {}
        BY <1>7, <3>1 DEF Iterated
      <3>2. CASE s # {}
        <4>1. Max(s) \in D /\ pick[s] = Max(s) /\ s \ {Max(s)} \in SUBSET D
          BY <1>3, <1>6, <3>2
        <4>2. g[s] = step[<<g[s \ {Max(s)}], Max(s)>>]
          BY <1>7, <3>2, <4>1 DEF Iterated
        <4>3. g[s \ {Max(s)}] \in A
          BY <1>7, <4>1
        <4> QED
          BY <1>5, <3>2, <4>1, <4>2, <4>3
      <3> QED
        BY <3>1, <3>2
    <2> QED
      BY <1>7, <2>1
  <1> DEFINE h == CHOOSE f : f = F(f)
  <1>9. h = F(h)
    BY <1>8
  <1>10. ConfigureAll(d, ls) = h[D]
    BY DEF ConfigureAll, FoldLeft, MapThenFoldSet, D
  <1> HIDE DEF h
  <1>11. h[{}] = d
    BY <1>9
  <1>12. ASSUME NEW s \in SUBSET D, s # {}, h[s \ {Max(s)}] \in A
         PROVE  h[s] = step[<<h[s \ {Max(s)}], Max(s)>>]
    <2>1. h[s] = Configure(h[s \ {Max(s)}], ls[Max(s)])
      BY <1>9, <1>12
    <2>2. Max(s) \in D
      BY <1>3, <1>6, <1>12
    <2> QED
      BY <1>5, <1>12, <2>1, <2>2
  <1> HIDE DEF F, n
  <1>16. n \in Nat /\ step \in [A \X (1 .. n) -> A]
    BY <1>1, <1>2
  <1>17. Folding(h, n, A, d, step)
    BY <1>1, <1>11, <1>12 DEF Folding
  <1>13. \E c \in [0 .. n -> A] : Chain(c, n, d, h[1 .. n], step)
    BY <1>0, <1>16, <1>17, FoldsUp
  <1>14. PICK c \in [0 .. n -> A] :
            /\ c[0] = d /\ c[n] = h[1 .. n]
            /\ \A i \in 1 .. n : c[i] = step[<<c[i - 1], i>>]
    BY <1>13 DEF Chain
  <1>15. ASSUME NEW i \in 1 .. n PROVE c[i] = Configure(c[i - 1], ls[i])
    <2>1. i - 1 \in 0 .. n /\ i \in D
      BY <1>1
    <2> QED
      BY <1>5, <1>14, <2>1
  <1> QED
    BY <1>1, <1>10, <1>14, <1>15 DEF n, A, OneByOne

Those(P, S) == {p \in S : Reserves(P[p])}

\* The panels of S have got their rows, one below the other.
Rowed(P, S, g, h) ==
    /\ \A q \in Panels : g.panel[q] = IF q \in S THEN Configured(P[q], g.panel[q].y) ELSE P[q]
    /\ g.usable.y = BarHeight + Total(P, Those(P, S))
    /\ g.usable.h = Max({0, h - g.usable.y})
    /\ \A p \in Those(P, S) : g.panel[p].y + P[p].cur.zone <= g.usable.y
    /\ \A p, q \in Those(P, S) : p # q => \/ g.panel[p].y + P[p].cur.zone <= g.panel[q].y
                                        \/ g.panel[q].y + P[q].cur.zone <= g.panel[p].y

LEMMA TotalOfThose ==
    ASSUME NEW P \in PanelStates, NEW S \in SUBSET Panels
    PROVE  /\ Total(P, Those(P, S)) \in Nat
           /\ S = {} => Total(P, Those(P, S)) = 0
           /\ \A x \in Those(P, S) : Total(P, Those(P, S)) = P[x].cur.zone + Total(P, Those(P, S) \ {x})
           /\ \A x \in Those(P, S) : P[x].cur.zone \in Nat /\ P[x].cur.zone > 0
  <1> DEFINE T == Those(P, S)
  <1>1. IsFiniteSet(T)
    <2>1. T \subseteq Panels
      BY DEF Those
    <2> QED
      BY <2>1, FS_Subset, PanelAssumption
  <1>2. \A p \in T : P[p] \in PanelKinds /\ Reserves(P[p])
    BY DEF Those, PanelStates
  <1>3. \A p \in T : P[p].cur.zone \in Nat
    BY <1>2, StripIs
  <1>4. \A p \in T : P[p].cur.zone > 0
    BY <1>2 DEF Reserves
  <1>5. S = {} => T = {}
    BY DEF Those
  <1> HIDE DEF T
  <1>6. /\ Total(P, T) \in Nat
        /\ T = {} => Total(P, T) = 0
        /\ \A x \in T : Total(P, T) = P[x].cur.zone + Total(P, T \ {x})
    BY <1>1, <1>3, TotalIs
  <1> QED
    BY <1>3, <1>4, <1>5, <1>6 DEF T

LEMMA RowedStep ==
    ASSUME NEW P \in PanelStates, NEW R \in SUBSET Panels, NEW S \in SUBSET R, NEW p \in R \ S,
           NEW g \in Desks(R), NEW h \in Nat, Rowed(P, S, g, h), NEW t, t = Configure(g, p)
    PROVE  Rowed(P, S \cup {p}, t, h)
  <1> DEFINE r == P[p]
             k == Strip(r)
             y == RowOf(r, g.usable)
             T == Those(P, S)
             U == Those(P, S \cup {p})
             a == g.usable.y
  <1>1. /\ \A q \in Panels : g.panel[q] = IF q \in S THEN Configured(P[q], g.panel[q].y) ELSE P[q]
        /\ a = BarHeight + Total(P, T)
        /\ g.usable.h = Max({0, h - a})
        /\ \A q \in T : g.panel[q].y + P[q].cur.zone <= a
        /\ \A x, q \in T : x # q => \/ g.panel[x].y + P[x].cur.zone <= g.panel[q].y
                                    \/ g.panel[q].y + P[q].cur.zone <= g.panel[x].y
    BY DEF Rowed
  <1>2. g.panel[p] = r /\ r \in PanelKinds /\ r.phase # "none"
    <2>1. p \in Panels /\ p \notin S
      OBVIOUS
    <2>2. g.panel[p] = r
      BY <1>1, <2>1
    <2>3. g.panel[p].phase \in {"asked", "mapped"}
      BY DEF Desks
    <2> QED
      BY <2>1, <2>2, <2>3 DEF PanelStates
  <1>3. a \in Nat /\ g.usable.h \in Nat /\ y \in Nat /\ k \in Nat /\ (Reserves(r) => k = r.cur.zone)
    <2>1. g.usable \in Areas
      BY DEF Desks
    <2> QED
      BY <1>2, <2>1, StripIs DEF Areas, RowOf
  <1>4. /\ \A q \in Panels : t.panel[q] = IF q = p THEN Configured(r, y) ELSE g.panel[q]
        /\ t.usable.y = a + k /\ t.usable.h = Max({0, g.usable.h - k})
    <2>1. p \in R /\ R \in SUBSET Panels
      OBVIOUS
    <2> HIDE DEF a, k, y, r
    <2>2. Configuring(t, g, p)
      BY <2>1, ConfigureIs
    <2> QED
      BY <1>2, <2>2 DEF a, k, y, Configuring
  <1>5. t.panel[p] = Configured(r, y) /\ t.panel[p].y = y
    <2>1. t.panel[p] = Configured(r, y)
      BY <1>4
    <2> HIDE DEF y, r
    <2>2. Rowing(Configured(r, y), r, y)
      BY <1>2, <1>3, ConfiguredIs
    <2> QED
      BY <2>1, <2>2 DEF Rowing
  <1>6. \A q \in S : q # p /\ q \in Panels /\ t.panel[q] = g.panel[q]
    BY <1>4
  <1>7. \A q \in Panels : t.panel[q] = IF q \in S \cup {p} THEN Configured(P[q], t.panel[q].y) ELSE P[q]
    BY <1>1, <1>4, <1>5, <1>6
  <1>8. h - a \in Int
    BY <1>3
  <1>9. t.usable.h = Max({0, (h - a) - k})
    <2> DEFINE x == h - a
    <2>1. x \in Int
      BY <1>8
    <2> HIDE DEF x, k, a
    <2>2. Max({0, Max({0, x}) - k}) = Max({0, x - k})
      BY <1>3, <2>1, StripTaken
    <2> QED
      BY <1>1, <1>4, <2>2 DEF x
  <1>10. (h - a) - k = h - (a + k)
    BY <1>3
  <1>11. t.usable.h = Max({0, h - t.usable.y})
    BY <1>4, <1>9, <1>10
  <1>12. BarHeight \in Nat
    BY SpaceAssumption
  <1>13. \A q \in T : q \in S /\ t.panel[q].y = g.panel[q].y /\ P[q].cur.zone \in Nat
    <2>1. \A q \in T : q \in S
      BY DEF Those
    <2>2. \A q \in T : P[q].cur.zone \in Nat
      BY TotalOfThose
    <2> QED
      BY <1>6, <2>1, <2>2
  <1>14. \A q \in Panels : g.panel[q].y \in Nat /\ t.panel[q].y \in Nat
    <2>1. g.panel \in PanelStates
      BY DEF Desks
    <2>2. \A q \in Panels : g.panel[q].y \in Nat
      BY <2>1 DEF PanelStates, PanelKinds, PanelRecords
    <2> HIDE DEF y
    <2> QED
      BY <1>3, <1>4, <1>5, <2>2
  <1>15. Total(P, T) \in Nat /\ Total(P, U) \in Nat
    BY TotalOfThose
  <1>16. CASE Reserves(r)
    <2>1. U = T \cup {p} /\ U \ {p} = T /\ p \in U /\ p \notin T
      BY <1>16 DEF Those
    <2>2. Total(P, U) = r.cur.zone + Total(P, T)
      <3>1. Total(P, U) = P[p].cur.zone + Total(P, U \ {p})
        <4>1. S \cup {p} \in SUBSET Panels
          OBVIOUS
        <4> QED
          BY ZenonT(60), <2>1, <4>1, TotalOfThose
      <3> QED
        BY <2>1, <3>1
    <2>3. y = a
      BY <1>3, <1>16 DEF RowOf, Reserves
    <2> HIDE DEF T, U, y, k, a, r
    <2>4. t.usable.y = BarHeight + Total(P, U) /\ t.panel[p].y = a /\ t.usable.y = a + r.cur.zone
      BY <1>1, <1>3, <1>4, <1>5, <1>12, <1>15, <1>16, <2>2, <2>3
    <2>5. ASSUME NEW q \in U PROVE t.panel[q].y + P[q].cur.zone <= t.usable.y
      <3>1. CASE q = p
        BY <1>3, <1>16, <2>4, <3>1 DEF r
      <3>2. CASE q \in T
        <4>1. g.panel[q].y + P[q].cur.zone <= a /\ t.panel[q].y = g.panel[q].y
          BY <1>1, <1>13, <3>2
        <4>2. P[q].cur.zone \in Nat /\ t.panel[q].y \in Nat
          BY <1>13, <1>14, <3>2
        <4>3. a <= t.usable.y
          BY <1>3, <1>4
        <4> QED
          BY <1>3, <1>4, <4>1, <4>2, <4>3
      <3> QED
        BY <2>1, <3>1, <3>2
    <2>6. ASSUME NEW x \in U, NEW q \in U, x # q
          PROVE  \/ t.panel[x].y + P[x].cur.zone <= t.panel[q].y
                 \/ t.panel[q].y + P[q].cur.zone <= t.panel[x].y
      <3>1. CASE x \in T /\ q \in T
        BY <1>1, <1>13, <2>6, <3>1
      <3>2. CASE x = p /\ q \in T
        BY <1>1, <1>13, <2>4, <3>2
      <3>3. CASE q = p /\ x \in T
        BY <1>1, <1>13, <2>4, <3>3
      <3> QED
        BY <2>1, <2>6, <3>1, <3>2, <3>3
    <2> QED
      BY <1>7, <1>11, <2>4, <2>5, <2>6 DEF Rowed, U
  <1>17. CASE ~Reserves(r)
    <2>1. U = T /\ k = 0
      BY <1>17 DEF Those, Strip
    <2> HIDE DEF T, U, y, k, a, r
    <2>2. t.usable.y = a
      BY <1>3, <1>4, <2>1
    <2> QED
      BY <1>1, <1>7, <1>11, <1>13, <2>1, <2>2 DEF Rowed, U
  <1> QED
    BY <1>16, <1>17

LEMMA RowedIs ==
    ASSUME NEW P \in PanelStates, NEW S \in SUBSET Panels, \A p \in S : P[p].phase \in {"asked", "mapped"},
           NEW ls \in Once(Panels), ToSet(ls) = S, NEW h \in Nat,
           NEW g, g = ConfigureAll([panel |-> P, usable |-> Base(h), fault |-> {}], ls)
    PROVE  g \in Desks(S) /\ Rowed(P, S, g, h)
  <1> DEFINE d == [panel |-> P, usable |-> Base(h), fault |-> {}]
             n == Len(ls)
  <1>1. d \in Desks(S)
    <2>1. Base(h) \in Areas
      BY BaseType
    <2> QED
      BY <2>1 DEF Desks
  <1>2. /\ ls \in Seq(Panels) /\ n \in Nat /\ DOMAIN ls = 1 .. n /\ (\A i \in 1 .. n : ls[i] \in S)
        /\ (\A p \in S : \E i \in 1 .. n : ls[i] = p)
        /\ \A i, j \in 1 .. n : ls[i] = ls[j] => i = j
    <2>1. ls \in Seq(Panels) /\ IsInjective(ls)
      BY DEF Once
    <2>2. n \in Nat /\ DOMAIN ls = 1 .. n /\ (\A i \in 1 .. n : ls[i] \in S)
          /\ (\A p \in S : \E i \in 1 .. n : ls[i] = p)
      BY <2>1, ElementsOf
    <2> QED
      BY <2>1, <2>2 DEF IsInjective
  <1>3. Rowed(P, {}, d, h)
    <2>1. Those(P, {}) = {} /\ Total(P, Those(P, {})) = 0
      BY TotalOfThose DEF Those
    <2>2. Base(h).y = BarHeight /\ Base(h).h = Max({0, h - BarHeight}) /\ BarHeight \in Nat
      BY BaseType, SpaceAssumption
    <2>3. d.panel = P /\ d.usable = Base(h)
      OBVIOUS
    <2> HIDE DEF d
    <2>4. d.usable.y = BarHeight /\ BarHeight + Total(P, Those(P, {})) = BarHeight
      BY <2>1, <2>2, <2>3
    <2>5. d.usable.h = Max({0, h - d.usable.y})
      BY <2>2, <2>3, <2>4
    <2> QED
      BY <2>1, <2>3, <2>4, <2>5 DEF Rowed
  <1> HIDE DEF d
  <1>4. PICK c \in [0 .. n -> Desks(S)] :
               /\ c[0] = d /\ c[n] = g
               /\ \A i \in 1 .. n : c[i] = Configure(c[i - 1], ls[i])
    <2>1. g = ConfigureAll(d, ls)
      BY DEF d
    <2>2. \E c \in [0 .. Len(ls) -> Desks(S)] : OneByOne(c, d, ConfigureAll(d, ls), ls)
      BY <1>1, <1>2, ArrangeSteps
    <2> QED
      BY <2>1, <2>2 DEF OneByOne
  <1> DEFINE Upto(i) == {ls[j] : j \in 1 .. i}
             B == {i \in 0 .. n : Rowed(P, Upto(i), c[i], h)}
  <1>5. 0 \in B
    <2>1. Upto(0) = {}
      OBVIOUS
    <2> HIDE DEF Upto
    <2>2. Rowed(P, Upto(0), c[0], h)
      BY <1>3, <1>4, <2>1
    <2> QED
      BY <1>2, <2>2
  <1>6. ASSUME NEW i \in 1 .. n, i - 1 \in B PROVE i \in B
    <2>1. Upto(i) = Upto(i - 1) \cup {ls[i]}
      <3>1. \A j : j \in 1 .. i <=> j \in 1 .. (i - 1) \/ j = i
        BY <1>2
      <3> QED
        BY <3>1
    <2>2. Upto(i - 1) \in SUBSET S
      <3>1. \A j \in 1 .. (i - 1) : j \in 1 .. n
        BY <1>2
      <3> QED
        BY <1>2, <3>1
    <2>3. ls[i] \in S \ Upto(i - 1)
      <3>1. \A j \in 1 .. (i - 1) : j \in 1 .. n /\ j # i
        BY <1>2
      <3>2. ls[i] \notin Upto(i - 1)
        BY <1>2, <3>1
      <3> QED
        BY <1>2, <3>2
    <2>4. c[i - 1] \in Desks(S) /\ c[i] = Configure(c[i - 1], ls[i]) /\ i \in 0 .. n
      BY <1>2, <1>4
    <2>5. Rowed(P, Upto(i - 1), c[i - 1], h)
      BY <1>6
    <2> HIDE DEF Upto
    <2>6. Rowed(P, Upto(i - 1) \cup {ls[i]}, c[i], h)
      BY <2>2, <2>3, <2>4, <2>5, RowedStep
    <2> QED
      BY <2>1, <2>4, <2>6
  <1>7. Upto(n) = S
    BY <1>2
  <1> HIDE DEF B
  <1>8. \A i \in 0 .. n : i \in B
    BY <1>2, <1>5, <1>6, Climbs
  <1>9. n \in B /\ n \in 0 .. n
    BY <1>2, <1>8
  <1> QED
    BY <1>4, <1>7, <1>9 DEF B

-----------------------------------------------------------------------------
(* What holds of panels, monitors, the focus and popups, each part of the state it speaks of *)

Homes(P, M) ==
    /\ \A p \in Panels : P[p].phase # "none" => M[P[p].on].plugged
    /\ \A o \in Monitors : M[o].on => M[o].plugged

Hanging(P, U) ==
    \A q \in Popups : U[q] # NoPopup =>
        /\ U[q].parent \in Panels \cup Popups /\ U[q].owner \in Panels
        /\ P[U[q].owner].phase \in {"mapped", "bare"}
        /\ IF U[q].parent \in Panels THEN U[q].parent = U[q].owner
           ELSE U[U[q].parent].owner = U[q].owner

LeftBy(t, height) == [y |-> BarHeight + t, h |-> Max({0, height - (BarHeight + t)})]
AreaAt(P, M, o) == M[o].usable = LeftBy(Total(P, Reserving(P, o)), M[o].height)
LaidAt(M, o) == M[o].laid = M[o].usable \/ M[o].pending
RowsAt(P, o) ==
    \A p, q \in Reserving(P, o) : p # q => \/ P[p].y + P[p].cur.zone <= P[q].y
                                          \/ P[q].y + P[q].cur.zone <= P[p].y
Tidy(P, M, o) == AreaAt(P, M, o) /\ LaidAt(M, o) /\ RowsAt(P, o)

Focused(P, M, s) ==
    /\ M[s.on].on
    /\ s.keyboard = IF s.layer[s.on] # Nothing THEN s.layer[s.on] ELSE IF s.view THEN "view" ELSE Nothing
    /\ \A o \in Monitors : s.layer[o] # Nothing =>
          o = s.on /\ ~s.view /\ P[s.layer[o]].phase = "mapped" /\ P[s.layer[o]].on = o

Agreed(r) ==
    /\ r.phase \in {"asked", "mapped", "bare"} => r.zone = r.cur.zone
    /\ r.phase = "mapped" => r.layer = r.cur.layer

NoneNew(P) == \A p \in Panels : P[p].phase # "new"

Fitting(g) == /\ g \in Worlds /\ Listing(g.panel, g.monitor) /\ Homes(g.panel, g.monitor)
              /\ Hanging(g.panel, g.popup)
AllTidy(g) == \A o \in Monitors : Tidy(g.panel, g.monitor, o)
AllAgreed(g) == \A p \in Panels : Agreed(g.panel[p])
AllAnswered(g) == \A p \in Panels : ~g.panel[p].asks

Orderly(g) ==
    /\ Fitting(g) /\ AllTidy(g) /\ Focused(g.panel, g.monitor, g.seat)
    /\ AllAgreed(g) /\ AllAnswered(g)

AllAlike(Q, P) == \A p \in Panels : Alike(Q[p], P[p])

LEMMA AlikeSets ==
    ASSUME NEW P \in PanelStates, NEW Q \in PanelStates, AllAlike(Q, P), NEW o
    PROVE  /\ Stacked(Q, o) = Stacked(P, o) /\ Reserving(Q, o) = Reserving(P, o)
           /\ \A l : Layered(Q, o, l) = Layered(P, o, l)
           /\ Total(Q, Reserving(Q, o)) = Total(P, Reserving(P, o))
  <1>1. \A p \in Panels : /\ Q[p].phase = P[p].phase /\ Q[p].on = P[p].on /\ Q[p].cur = P[p].cur
                          /\ Q[p].layer = P[p].layer
    BY DEF AllAlike, Alike
  <1>2. Stacked(Q, o) = Stacked(P, o) /\ \A l : Layered(Q, o, l) = Layered(P, o, l)
    BY <1>1 DEF Stacked, Layered, InAList
  <1> DEFINE T == Reserving(P, o)
  <1>3. Reserving(Q, o) = T
    BY <1>1 DEF Reserving, Reserves
  <1>4. \A p \in T : P[p].cur.zone \in Nat /\ Q[p].cur.zone = P[p].cur.zone
    <2>1. \A p \in T : p \in Panels /\ P[p] \in PanelKinds /\ Reserves(P[p])
      BY DEF Reserving, PanelStates
    <2>2. \A p \in T : P[p].cur.zone \in Nat
      BY <2>1, StripIs
    <2> QED
      BY <1>1, <2>1, <2>2
  <1>5. IsFiniteSet(T)
    <2>1. T \subseteq Panels
      BY DEF Reserving
    <2> QED
      BY <2>1, FS_Subset, PanelAssumption
  <1> HIDE DEF T
  <1>6. Total(Q, T) = Total(P, T)
    BY <1>4, <1>5, TotalSame
  <1> QED
    BY <1>2, <1>3, <1>6 DEF T

SameButArea(m, n) ==
    /\ m.plugged = n.plugged /\ m.on = n.on /\ m.height = n.height /\ m.laid = n.laid /\ m.list = n.list
    /\ m.pending = (n.pending \/ m.usable # n.usable)

Arranged(h, g, o) ==
    /\ h \in Worlds /\ h.seat = g.seat /\ h.popup = g.popup
    /\ AllAlike(h.panel, g.panel)
    /\ \A p \in Panels : g.panel[p].on # o => h.panel[p] = g.panel[p]
    /\ \A p \in Panels : h.panel[p].asks => g.panel[p].asks /\ p \notin Stacked(g.panel, o)
    /\ \A u \in Monitors : u # o => h.monitor[u] = g.monitor[u]
    /\ SameButArea(h.monitor[o], g.monitor[o])
    /\ AreaAt(h.panel, h.monitor, o) /\ RowsAt(h.panel, o)

LEMMA ArrangeIs ==
    ASSUME NEW g \in Worlds, NEW o \in Monitors, Listing(g.panel, g.monitor),
           \A p \in Stacked(g.panel, o) : g.panel[p].phase # "new"
    PROVE  Arranged(Arrange(g, o), g, o)
  <1> DEFINE P == g.panel
             M == g.monitor
             m == M[o]
             S == Stacked(P, o)
             ls == Stack(M, o)
             d == [panel |-> P, usable |-> Base(m.height), fault |-> g.fault]
             done == ConfigureAll(d, ls)
             late == m.pending \/ done.usable # m.usable
             k == [m EXCEPT !.usable = done.usable, !.pending = late]
             N == [M EXCEPT ![o] = k]
             h == Arrange(g, o)
  <1>1. /\ P \in PanelStates /\ M \in MonitorStates /\ m \in MonitorKinds /\ m.height \in Nat /\ g.fault = {}
        /\ g \in [panel : PanelStates, monitor : MonitorStates, seat : SeatStates, popup : PopupStates,
                  fault : {{}}]
    BY DEF Worlds, MonitorStates, MonitorKinds
  <1>2. S \in SUBSET Panels /\ \A p \in S : P[p].phase \in {"asked", "mapped"}
    BY DEF Stacked, InAList
  <1>3. ls \in Once(Panels) /\ ToSet(ls) = S
    BY <1>1, StackIs
  <1>4. done \in Desks(S) /\ Rowed(P, S, done, m.height)
    <2>1. done = ConfigureAll([panel |-> P, usable |-> Base(m.height), fault |-> {}], ls)
      BY <1>1
    <2> HIDE DEF done, d, ls, S, m, P
    <2> QED
      BY <1>1, <1>2, <1>3, <2>1, RowedIs
  <1>5. h = [g EXCEPT !.panel = done.panel, !.fault = done.fault, !.monitor = N]
    BY DEF Arrange
  <1> HIDE DEF done, d, ls
  <1>6. /\ done.panel \in PanelStates /\ done.usable \in Areas /\ done.fault = {}
        /\ \A q \in Panels : done.panel[q] = IF q \in S THEN Configured(P[q], done.panel[q].y) ELSE P[q]
        /\ done.usable.y = BarHeight + Total(P, Those(P, S))
        /\ done.usable.h = Max({0, m.height - done.usable.y})
        /\ \A p, q \in Those(P, S) : p # q => \/ done.panel[p].y + P[p].cur.zone <= done.panel[q].y
                                            \/ done.panel[q].y + P[q].cur.zone <= done.panel[p].y
    BY <1>4 DEF Desks, Rowed
  <1>7. late \in BOOLEAN
    BY <1>1 DEF MonitorKinds
  <1>8. k \in MonitorKinds /\ SameButArea(k, m) /\ k.usable = done.usable
    BY <1>1, <1>6, <1>7 DEF MonitorKinds, SameButArea
  <1> HIDE DEF k, late
  <1>9. /\ N \in MonitorStates /\ N[o] = k /\ \A u \in Monitors : u # o => N[u] = M[u]
    BY <1>1, <1>8 DEF MonitorStates
  <1> HIDE DEF N
  <1>10. /\ h \in Worlds /\ h.panel = done.panel /\ h.monitor = N /\ h.seat = g.seat /\ h.popup = g.popup
    BY <1>1, <1>5, <1>6, <1>9 DEF Worlds
  <1> HIDE DEF h
  <1>11. ASSUME NEW p \in Panels
         PROVE  /\ Alike(h.panel[p], P[p]) /\ (P[p].on # o => h.panel[p] = P[p])
                /\ h.panel[p].asks => P[p].asks /\ p \notin S
    <2>1. CASE p \in S
      <3>1. P[p] \in PanelKinds /\ P[p].phase # "none" /\ P[p].on = o
        BY <1>1, <1>2, <2>1 DEF PanelStates, Stacked
      <3>2. done.panel[p].y \in Nat
        BY <1>6 DEF PanelStates, PanelKinds, PanelRecords
      <3>3. h.panel[p] = Configured(P[p], done.panel[p].y)
        BY <1>6, <1>10, <2>1
      <3> HIDE DEF P
      <3>4. Rowing(Configured(P[p], done.panel[p].y), P[p], done.panel[p].y)
        BY <3>1, <3>2, ConfiguredIs
      <3> QED
        BY <3>1, <3>3, <3>4 DEF Rowing
    <2>2. CASE p \notin S
      BY <1>6, <1>10, <2>2 DEF Alike
    <2> QED
      BY <2>1, <2>2
  <1>12. AllAlike(h.panel, P) /\ h.panel \in PanelStates
    BY <1>6, <1>10, <1>11 DEF AllAlike
  <1>13. Those(P, S) = Reserving(P, o)
    BY DEF Those, Stacked, Reserving, Reserves, InAList
  <1>14. /\ Reserving(h.panel, o) = Reserving(P, o)
         /\ Total(h.panel, Reserving(h.panel, o)) = Total(P, Reserving(P, o))
    BY <1>1, <1>12, AlikeSets
  <1>15. AreaAt(h.panel, h.monitor, o)
    <2>1. h.monitor[o].usable = done.usable /\ h.monitor[o].height = m.height
      BY <1>8, <1>9, <1>10 DEF SameButArea
    <2>2. done.usable = [y |-> done.usable.y, h |-> done.usable.h]
      BY <1>6 DEF Areas
    <2> HIDE DEF m, P, M, S
    <2>3. done.usable = LeftBy(Total(P, Reserving(P, o)), m.height)
      BY <1>6, <1>13, <2>2 DEF LeftBy
    <2> QED
      BY <1>14, <2>1, <2>3 DEF AreaAt
  <1>16. RowsAt(h.panel, o)
    <2>1. \A p \in Reserving(P, o) : p \in Panels /\ h.panel[p].cur = P[p].cur /\ h.panel[p].y = done.panel[p].y
      BY <1>10, <1>11 DEF Alike, Reserving
    <2> HIDE DEF P, S
    <2> QED
      BY <1>6, <1>13, <1>14, <2>1 DEF RowsAt
  <1>17. \A u \in Monitors : u # o => h.monitor[u] = M[u]
    BY <1>9, <1>10
  <1>18. SameButArea(h.monitor[o], m)
    BY <1>8, <1>9, <1>10
  <1>19. Arranged(h, g, o)
    <2>1. \A p \in Panels : P[p].on # o => h.panel[p] = P[p]
      BY <1>11
    <2>2. \A p \in Panels : h.panel[p].asks => P[p].asks /\ p \notin S
      BY <1>11
    <2> QED
      BY <1>10, <1>12, <1>15, <1>16, <1>17, <1>18, <2>1, <2>2 DEF Arranged
  <1> QED
    BY <1>19 DEF h

\* What an arranged output leaves as it was.
LEMMA AlikeKeepsPanels ==
    ASSUME NEW P \in PanelStates, NEW Q \in PanelStates, AllAlike(Q, P), NEW M, NEW U, NEW s
    PROVE  /\ Listing(P, M) => Listing(Q, M)
           /\ Homes(P, M) => Homes(Q, M)
           /\ U \in PopupStates /\ Hanging(P, U) => Hanging(Q, U)
           /\ s \in SeatStates /\ Focused(P, M, s) => Focused(Q, M, s)
           /\ (\A p \in Panels : Agreed(P[p])) => \A p \in Panels : Agreed(Q[p])
           /\ NoneNew(P) => NoneNew(Q)
  <1>1. \A p \in Panels : /\ Q[p].phase = P[p].phase /\ Q[p].on = P[p].on /\ Q[p].cur = P[p].cur
                          /\ Q[p].layer = P[p].layer /\ Q[p].zone = P[p].zone
    BY DEF AllAlike, Alike
  <1>2. Listing(P, M) => Listing(Q, M)
    <2>1. \A o : \A l : Layered(Q, o, l) = Layered(P, o, l)
      BY AlikeSets
    <2> QED
      BY <2>1 DEF Listing
  <1>3. Homes(P, M) => Homes(Q, M)
    BY <1>1 DEF Homes
  <1>4. U \in PopupStates /\ Hanging(P, U) => Hanging(Q, U)
    BY <1>1 DEF Hanging
  <1>5. s \in SeatStates /\ Focused(P, M, s) => Focused(Q, M, s)
    <2>1. s \in SeatStates => \A o \in Monitors : s.layer[o] # Nothing => s.layer[o] \in Panels
      BY DEF SeatStates
    <2> QED
      BY <1>1, <2>1 DEF Focused
  <1>6. (\A p \in Panels : Agreed(P[p])) => \A p \in Panels : Agreed(Q[p])
    BY <1>1 DEF Agreed
  <1>7. NoneNew(P) => NoneNew(Q)
    BY <1>1 DEF NoneNew
  <1> QED
    BY <1>2, <1>3, <1>4, <1>5, <1>6, <1>7

\* Only what a monitor's lists say matters to its panels.
SameMonitors(N, M) ==
    \A o \in Monitors : N[o].plugged = M[o].plugged /\ N[o].on = M[o].on /\ N[o].list = M[o].list

LEMMA SameMonitorsKeep ==
    ASSUME NEW P \in PanelStates, NEW M, NEW N, SameMonitors(N, M), NEW s
    PROVE  /\ Listing(P, M) => Listing(P, N)
           /\ Homes(P, M) => Homes(P, N)
           /\ s \in SeatStates /\ Focused(P, M, s) => Focused(P, N, s)
  <1>1. Listing(P, M) => Listing(P, N)
    BY DEF Listing, SameMonitors
  <1>2. Homes(P, M) => Homes(P, N)
    <2>1. \A p \in Panels : P[p].phase # "none" => P[p].on \in Monitors
      BY DEF PanelStates, PanelKinds, Shaped
    <2> QED
      BY <2>1 DEF Homes, SameMonitors
  <1>3. s \in SeatStates /\ Focused(P, M, s) => Focused(P, N, s)
    <2>1. s \in SeatStates => s.on \in Monitors
      BY DEF SeatStates
    <2> QED
      BY <2>1 DEF Focused, SameMonitors
  <1> QED
    BY <1>1, <1>2, <1>3

\* An output whose strips and area are as they were stays tidy.
SameStrips(Q, P, u) ==
    /\ Reserving(Q, u) = Reserving(P, u)
    /\ \A p \in Reserving(P, u) : Q[p].cur.zone = P[p].cur.zone /\ Q[p].y = P[p].y
SameArea(n, m) ==
    n.usable = m.usable /\ n.height = m.height /\ n.laid = m.laid /\ n.pending = m.pending

LEMMA StripsTidy ==
    ASSUME NEW P \in PanelStates, NEW Q, NEW M, NEW N, NEW u, SameStrips(Q, P, u), SameArea(N[u], M[u])
    PROVE  Tidy(P, M, u) => Tidy(Q, N, u)
  <1> DEFINE T == Reserving(P, u)
  <1>1. /\ Reserving(Q, u) = T
        /\ \A p \in T : Q[p].cur.zone = P[p].cur.zone /\ Q[p].y = P[p].y
    BY DEF SameStrips
  <1>2. \A p \in T : p \in Panels /\ P[p] \in PanelKinds /\ Reserves(P[p])
    BY DEF Reserving, PanelStates
  <1>3. \A p \in T : P[p].cur.zone \in Nat /\ Q[p].cur.zone = P[p].cur.zone
    BY <1>1, <1>2, StripIs
  <1>4. IsFiniteSet(T)
    <2>1. T \subseteq Panels
      BY DEF Reserving
    <2> QED
      BY <2>1, FS_Subset, PanelAssumption
  <1> HIDE DEF T
  <1>5. Total(Q, T) = Total(P, T)
    BY <1>3, <1>4, TotalSame
  <1>6. AreaAt(P, M, u) => AreaAt(Q, N, u)
    BY <1>1, <1>5 DEF AreaAt, SameArea, T
  <1>7. RowsAt(P, u) => RowsAt(Q, u)
    BY <1>1 DEF RowsAt, T
  <1>8. LaidAt(M, u) => LaidAt(N, u)
    BY DEF LaidAt, SameArea
  <1> QED
    BY <1>6, <1>7, <1>8 DEF Tidy

LEMMA ArrangeKeeps ==
    ASSUME NEW g, Fitting(g), NEW h, NEW o \in Monitors, Arranged(h, g, o)
    PROVE  /\ Fitting(h) /\ AllAlike(h.panel, g.panel) /\ SameMonitors(h.monitor, g.monitor)
           /\ LaidAt(g.monitor, o) => Tidy(h.panel, h.monitor, o)
           /\ \A u \in Monitors : u # o /\ Tidy(g.panel, g.monitor, u) => Tidy(h.panel, h.monitor, u)
           /\ Focused(g.panel, g.monitor, g.seat) => Focused(h.panel, h.monitor, h.seat)
           /\ AllAgreed(g) => AllAgreed(h)
           /\ NoneNew(g.panel) => NoneNew(h.panel)
  <1>1. /\ g \in Worlds /\ h \in Worlds /\ h.seat = g.seat /\ h.popup = g.popup
        /\ AllAlike(h.panel, g.panel)
        /\ \A p \in Panels : g.panel[p].on # o => h.panel[p] = g.panel[p]
        /\ \A u \in Monitors : u # o => h.monitor[u] = g.monitor[u]
        /\ SameButArea(h.monitor[o], g.monitor[o])
        /\ AreaAt(h.panel, h.monitor, o) /\ RowsAt(h.panel, o)
    BY DEF Arranged, Fitting
  <1>2. /\ g.panel \in PanelStates /\ h.panel \in PanelStates /\ g.seat \in SeatStates /\ g.popup \in PopupStates
    BY <1>1 DEF Worlds
  <1>3. SameMonitors(h.monitor, g.monitor)
    BY <1>1 DEF SameMonitors, SameButArea
  <1>4. Listing(g.panel, g.monitor) /\ Homes(g.panel, g.monitor) /\ Hanging(g.panel, g.popup)
    BY DEF Fitting
  <1>5. Listing(h.panel, g.monitor) /\ Homes(h.panel, g.monitor) /\ Hanging(h.panel, h.popup)
    BY <1>1, <1>2, <1>4, AlikeKeepsPanels
  <1>6. Fitting(h)
    <2>1. Listing(h.panel, h.monitor) /\ Homes(h.panel, h.monitor)
      BY <1>2, <1>3, <1>5, SameMonitorsKeep
    <2> QED
      BY <1>1, <1>5, <2>1 DEF Fitting
  <1>7. LaidAt(g.monitor, o) => Tidy(h.panel, h.monitor, o)
    <2>1. LaidAt(g.monitor, o) => LaidAt(h.monitor, o)
      BY <1>1 DEF LaidAt, SameButArea
    <2> QED
      BY <1>1, <2>1 DEF Tidy
  <1>8. ASSUME NEW u \in Monitors, u # o, Tidy(g.panel, g.monitor, u) PROVE Tidy(h.panel, h.monitor, u)
    <2>1. \A p \in Panels : g.panel[p].on = u \/ h.panel[p].on = u => h.panel[p] = g.panel[p]
      BY <1>1, <1>8 DEF AllAlike, Alike
    <2>2. h.monitor[u] = g.monitor[u]
      BY <1>1, <1>8
    <2>3. SameStrips(h.panel, g.panel, u)
      BY <2>1 DEF SameStrips, Reserving
    <2>4. SameArea(h.monitor[u], g.monitor[u])
      BY <2>2 DEF SameArea
    <2> QED
      BY <1>2, <1>8, <2>3, <2>4, StripsTidy
  <1>9. Focused(g.panel, g.monitor, g.seat) => Focused(h.panel, h.monitor, h.seat)
    <2>1. Focused(g.panel, g.monitor, g.seat) => Focused(h.panel, g.monitor, g.seat)
      BY <1>1, <1>2, AlikeKeepsPanels
    <2>2. Focused(h.panel, g.monitor, g.seat) => Focused(h.panel, h.monitor, g.seat)
      BY <1>2, <1>3, SameMonitorsKeep
    <2> QED
      BY <1>1, <2>1, <2>2
  <1>10. AllAgreed(g) => AllAgreed(h)
    BY <1>1, <1>2, AlikeKeepsPanels DEF AllAgreed
  <1>11. NoneNew(g.panel) => NoneNew(h.panel)
    BY <1>1, <1>2, AlikeKeepsPanels
  <1> QED
    BY <1>1, <1>3, <1>6, <1>7, <1>8, <1>9, <1>10, <1>11

-----------------------------------------------------------------------------
(* The focus *)

FocusMoved(h, g) ==
    /\ h \in Worlds /\ h.panel = g.panel /\ h.monitor = g.monitor /\ h.popup = g.popup
    /\ Focused(h.panel, h.monitor, h.seat)

OtherFocus(t, P, M, o) ==
    t \in SeatStates /\ Focused(P, M, t) /\ t.on = o /\ \A u \in Monitors : t.layer[u] = Nothing

LEMMA FocusViewIs ==
    ASSUME NEW P, NEW M, NEW s \in SeatStates, Focused(P, M, s), NEW o \in Monitors, M[o].on,
           NEW shown \in BOOLEAN, o = s.on \/ s.layer[s.on] = Nothing
    PROVE  OtherFocus(FocusView(s, o, shown), P, M, o)
  <1> DEFINE t == FocusView(s, o, shown)
             ly == [s.layer EXCEPT ![o] = Nothing]
             k == IF shown THEN "view" ELSE Nothing
  <1>1. t = [s EXCEPT !.on = o, !.view = shown, !.layer = ly, !.keyboard = k]
    BY DEF FocusView
  <1>2. s.layer \in [Monitors -> Panels \cup {Nothing}] /\ s.on \in Monitors
    BY DEF SeatStates
  <1>3. ly \in [Monitors -> Panels \cup {Nothing}] /\ \A u \in Monitors : ly[u] = IF u = o THEN Nothing ELSE s.layer[u]
    BY <1>2
  <1>4. \A u \in Monitors : ly[u] = Nothing
    BY <1>2, <1>3 DEF Focused
  <1>5. k \in Panels \cup {"view", Nothing}
    OBVIOUS
  <1> HIDE DEF ly, t
  <1>6. /\ t \in SeatStates /\ t.on = o /\ t.view = shown /\ t.layer = ly /\ t.keyboard = k
    BY <1>1, <1>3, <1>5 DEF SeatStates
  <1> QED
    BY <1>4, <1>6 DEF Focused, OtherFocus, t

LEMMA FocusPanelIs ==
    ASSUME NEW P, NEW M, NEW s \in SeatStates, Focused(P, M, s), NEW p \in Panels, P[p].phase = "mapped",
           P[p].on \in Monitors, M[P[p].on].on, NEW t, t = FocusPanel(s, p, P[p].on)
    PROVE  t \in SeatStates /\ Focused(P, M, t)
  <1> DEFINE o == P[p].on
             left == IF s.view THEN FocusView(s, s.on, FALSE) ELSE s
             cleared == [left.layer EXCEPT ![s.on] = Nothing]
             ly == [cleared EXCEPT ![o] = p]
  <1>1. s.on \in Monitors /\ M[s.on].on
    BY DEF SeatStates, Focused
  <1>2. left \in SeatStates /\ Focused(P, M, left) /\ left.on = s.on
    <2> DEFINE f == FocusView(s, s.on, FALSE)
    <2>1. OtherFocus(FocusView(s, s.on, FALSE), P, M, s.on)
      BY <1>1, FocusViewIs
    <2>2. f \in SeatStates /\ Focused(P, M, f) /\ f.on = s.on
      BY <2>1 DEF OtherFocus
    <2> HIDE DEF f
    <2>3. left = IF s.view THEN f ELSE s
      BY DEF f
    <2> HIDE DEF left
    <2> QED
      BY <2>2, <2>3
  <1>3. t = [left EXCEPT !.on = o, !.view = FALSE, !.keyboard = p, !.layer = ly]
    BY DEF FocusPanel
  <1> HIDE DEF left
  <1>4. left.layer \in [Monitors -> Panels \cup {Nothing}]
    BY <1>2 DEF SeatStates
  <1>5. cleared \in [Monitors -> Panels \cup {Nothing}] /\ \A u \in Monitors : cleared[u] = Nothing
    BY <1>1, <1>2, <1>4 DEF Focused
  <1> HIDE DEF cleared
  <1>6. ly \in [Monitors -> Panels \cup {Nothing}] /\ \A u \in Monitors : ly[u] = IF u = o THEN p ELSE Nothing
    BY <1>5
  <1> HIDE DEF ly
  <1>7. t \in SeatStates /\ t.on = o /\ t.view = FALSE /\ t.layer = ly /\ t.keyboard = p
    BY <1>2, <1>3, <1>6 DEF SeatStates
  <1>8. p # Nothing
    BY PanelAssumption
  <1> QED
    BY <1>6, <1>7, <1>8 DEF Focused

LEMMA CursorFocusIs ==
    ASSUME PanelRaces = {}, NEW g \in Worlds, Focused(g.panel, g.monitor, g.seat), NEW h \in CursorFocus(g)
    PROVE  FocusMoved(h, g)
  <1> DEFINE s == g.seat
             P == g.panel
             M == g.monitor
  <1>1. s \in SeatStates /\ P \in PanelStates
    BY DEF Worlds
  <1>2. ASSUME NEW t \in SeatStates, Focused(P, M, t), h = [g EXCEPT !.seat = t] PROVE FocusMoved(h, g)
    <2>1. h \in Worlds /\ h.panel = g.panel /\ h.monitor = g.monitor /\ h.popup = g.popup /\ h.seat = t
      BY <1>2 DEF Worlds
    <2> QED
      BY <1>2, <2>1 DEF FocusMoved
  <1>3. CASE h = g
    BY <1>3 DEF FocusMoved
  <1>4. CASE \E o \in Monitors, shown \in BOOLEAN :
                M[o].on /\ MayLeave(s, o) /\ h = [g EXCEPT !.seat = FocusView(s, o, shown)]
    <2>1. PICK o \in Monitors, shown \in BOOLEAN :
                M[o].on /\ MayLeave(s, o) /\ h = [g EXCEPT !.seat = FocusView(s, o, shown)]
      BY <1>4
    <2>2. o = s.on \/ s.layer[s.on] = Nothing
      BY <2>1 DEF MayLeave
    <2> DEFINE t == FocusView(s, o, shown)
    <2>3. t \in SeatStates /\ Focused(P, M, t)
      <3>1. Focused(P, M, s)
        OBVIOUS
      <3> HIDE DEF s, P, M
      <3>2. OtherFocus(FocusView(s, o, shown), P, M, o)
        BY <1>1, <2>1, <2>2, <3>1, FocusViewIs
      <3> QED
        BY <3>2 DEF OtherFocus
    <2>4. h = [g EXCEPT !.seat = t]
      BY <2>1
    <2> HIDE DEF t, s, P, M
    <2> QED
      BY <1>2, <2>3, <2>4
  <1>5. CASE \E p \in Interactive : /\ P[p].phase = "mapped" /\ M[P[p].on].on
                                    /\ h = [g EXCEPT !.seat = FocusPanel(s, p, P[p].on)]
    <2>1. PICK p \in Interactive : /\ P[p].phase = "mapped" /\ M[P[p].on].on
                                    /\ h = [g EXCEPT !.seat = FocusPanel(s, p, P[p].on)]
      BY <1>5
    <2>2. p \in Panels /\ P[p].on \in Monitors
      <3>1. p \in Panels
        BY SpaceAssumption
      <3> QED
        BY <1>1, <2>1, <3>1 DEF PanelStates, PanelKinds, Shaped
    <2> DEFINE t == FocusPanel(s, p, P[p].on)
    <2>3. t \in SeatStates /\ Focused(P, M, t)
      <3> HIDE DEF s, P, M
      <3> QED
        BY <1>1, <2>1, <2>2, FocusPanelIs DEF s, P, M
    <2>4. h = [g EXCEPT !.seat = t]
      BY <2>1
    <2> HIDE DEF t, s, P, M
    <2> QED
      BY <1>2, <2>3, <2>4
  <1> QED
    BY <1>3, <1>4, <1>5 DEF CursorFocus

-----------------------------------------------------------------------------
(* The lists *)

OnlyPanel(Q, P, p) == \A q \in Panels : q # p => Q[q] = P[q]

\* Nothing of the monitors but a list of one.
Relisted(N, M, o) ==
    /\ N \in MonitorStates
    /\ \A u \in Monitors : u # o => N[u] = M[u]
    /\ N[o].plugged = M[o].plugged /\ N[o].on = M[o].on /\ N[o].height = M[o].height
    /\ N[o].usable = M[o].usable /\ N[o].pending = M[o].pending /\ N[o].laid = M[o].laid

Unlisted(N, M, o, p) ==
    /\ Relisted(N, M, o)
    /\ \A k \in 1 .. Layers : ToSet(N[o].list[k]) = ToSet(M[o].list[k]) \ {p}

Enlisted(N, M, o, p, l) ==
    /\ Relisted(N, M, o)
    /\ \A k \in 1 .. Layers :
          ToSet(N[o].list[k]) = IF k = l THEN {p} \cup ToSet(M[o].list[k]) ELSE ToSet(M[o].list[k])

LEMMA UnlistIs ==
    ASSUME NEW M \in MonitorStates, NEW o \in Monitors, NEW p
    PROVE  Unlisted(Unlist(M, o, p), M, o, p)
  <1> DEFINE N == Unlist(M, o, p)
             m == M[o]
             ls == [l \in 1 .. Layers |-> RemoveFirst(M[o].list[l], p)]
             n == [m EXCEPT !.list = ls]
  <1>1. m \in MonitorKinds /\ \A l \in 1 .. Layers : m.list[l] \in Once(Panels)
    BY DEF MonitorStates, MonitorKinds, ListStates
  <1>2. ASSUME NEW l \in 1 .. Layers
        PROVE  ls[l] \in Once(Panels) /\ ToSet(ls[l]) = ToSet(m.list[l]) \ {p}
    <2>1. ls[l] = RemoveFirst(m.list[l], p)
      OBVIOUS
    <2>2. m.list[l] \in Once(Panels)
      BY <1>1
    <2> HIDE DEF ls, m
    <2> QED
      BY <2>1, <2>2, RemovedOnce
  <1>3. ls \in ListStates
    BY <1>2 DEF ListStates
  <1>4. N = [M EXCEPT ![o] = n]
    BY DEF Unlist
  <1> HIDE DEF ls
  <1>5. /\ n \in MonitorKinds /\ n.list = ls
        /\ n.plugged = m.plugged /\ n.on = m.on /\ n.height = m.height
        /\ n.usable = m.usable /\ n.pending = m.pending /\ n.laid = m.laid
    BY <1>1, <1>3 DEF MonitorKinds
  <1> HIDE DEF n, N
  <1>6. N \in MonitorStates /\ N[o] = n /\ \A u \in Monitors : u # o => N[u] = M[u]
    BY <1>4, <1>5 DEF MonitorStates
  <1> QED
    BY <1>2, <1>5, <1>6 DEF Relisted, Unlisted, N

LEMMA EnlistIs ==
    ASSUME NEW M \in MonitorStates, NEW o \in Monitors, NEW p \in Panels, NEW l \in 1 .. Layers,
           p \notin ToSet(M[o].list[l])
    PROVE  Enlisted(Enlist(M, o, p, l), M, o, p, l)
  <1> DEFINE N == Enlist(M, o, p, l)
             m == M[o]
             r == <<p>> \o m.list[l]
             ls == [m.list EXCEPT ![l] = r]
             n == [m EXCEPT !.list = ls]
  <1>1. m \in MonitorKinds /\ m.list \in ListStates /\ m.list[l] \in Once(Panels)
    BY DEF MonitorStates, MonitorKinds, ListStates
  <1>2. r \in Once(Panels) /\ ToSet(r) = {p} \cup ToSet(m.list[l])
    <2>1. p \notin ToSet(m.list[l])
      OBVIOUS
    <2> HIDE DEF m
    <2> QED
      BY <1>1, <2>1, PrependedOnce
  <1> HIDE DEF r
  <1>3. ls \in ListStates /\ \A k \in 1 .. Layers : ls[k] = IF k = l THEN r ELSE m.list[k]
    BY <1>1, <1>2 DEF ListStates
  <1>4. N = [M EXCEPT ![o] = n]
    BY DEF Enlist, r
  <1> HIDE DEF ls
  <1>5. /\ n \in MonitorKinds /\ n.list = ls
        /\ n.plugged = m.plugged /\ n.on = m.on /\ n.height = m.height
        /\ n.usable = m.usable /\ n.pending = m.pending /\ n.laid = m.laid
    BY <1>1, <1>3 DEF MonitorKinds
  <1> HIDE DEF n, N
  <1>6. N \in MonitorStates /\ N[o] = n /\ \A u \in Monitors : u # o => N[u] = M[u]
    BY <1>4, <1>5 DEF MonitorStates
  <1> QED
    BY <1>2, <1>3, <1>5, <1>6 DEF Relisted, Enlisted, N

LEMMA UnlistListing ==
    ASSUME NEW P \in PanelStates, NEW Q, NEW M \in MonitorStates, NEW o \in Monitors, NEW p \in Panels,
           Listing(P, M), InAList(P[p]) => P[p].on = o, ~InAList(Q[p]), OnlyPanel(Q, P, p)
    PROVE  Listing(Q, Unlist(M, o, p))
  <1> DEFINE N == Unlist(M, o, p)
  <1>1. /\ \A u \in Monitors : u # o => N[u] = M[u]
        /\ \A k \in 1 .. Layers : ToSet(N[o].list[k]) = ToSet(M[o].list[k]) \ {p}
    BY UnlistIs DEF Relisted, Unlisted
  <1> HIDE DEF N
  <1>2. \A u \in Monitors : \A k \in 1 .. Layers : Layered(Q, u, k) = Layered(P, u, k) \ {p}
    BY DEF Layered, OnlyPanel
  <1>3. \A u \in Monitors : u # o => \A k \in 1 .. Layers : p \notin Layered(P, u, k)
    BY DEF Layered
  <1>4. ASSUME NEW u \in Monitors, NEW k \in 1 .. Layers PROVE ToSet(N[u].list[k]) = Layered(Q, u, k)
    <2>1. ToSet(M[u].list[k]) = Layered(P, u, k)
      BY DEF Listing
    <2>2. CASE u = o
      BY <1>1, <1>2, <2>1, <2>2
    <2>3. CASE u # o
      <3>1. Layered(Q, u, k) = Layered(P, u, k)
        BY <1>2, <1>3, <2>3
      <3> QED
        BY <1>1, <2>1, <2>3, <3>1
    <2> QED
      BY <2>2, <2>3
  <1> QED
    BY <1>4 DEF Listing, N

LEMMA EnlistListing ==
    ASSUME NEW P \in PanelStates, NEW Q, NEW M \in MonitorStates, NEW o \in Monitors, NEW p \in Panels,
           NEW l \in 1 .. Layers, Listing(P, M), ~InAList(P[p]), OnlyPanel(Q, P, p),
           InAList(Q[p]), Q[p].on = o, Q[p].layer = l
    PROVE  Listing(Q, Enlist(M, o, p, l)) /\ p \notin ToSet(M[o].list[l])
  <1> DEFINE N == Enlist(M, o, p, l)
  <1>0. p \notin ToSet(M[o].list[l])
    BY DEF Listing, Layered
  <1>1. /\ \A u \in Monitors : u # o => N[u] = M[u]
        /\ \A k \in 1 .. Layers :
              ToSet(N[o].list[k]) = IF k = l THEN {p} \cup ToSet(M[o].list[k]) ELSE ToSet(M[o].list[k])
    <2>1. Enlisted(N, M, o, p, l)
      BY <1>0, EnlistIs
    <2> QED
      BY <2>1 DEF Relisted, Enlisted
  <1> HIDE DEF N
  <1>2. ASSUME NEW u \in Monitors, NEW k \in 1 .. Layers PROVE ToSet(N[u].list[k]) = Layered(Q, u, k)
    <2>1. ToSet(M[u].list[k]) = Layered(P, u, k)
      BY DEF Listing
    <2>2. CASE u = o /\ k = l
      <3>1. Layered(Q, u, k) = {p} \cup Layered(P, u, k)
        BY <2>2 DEF Layered, OnlyPanel
      <3> QED
        BY <1>1, <2>1, <2>2, <3>1
    <2>3. CASE ~(u = o /\ k = l)
      <3>1. Layered(Q, u, k) = Layered(P, u, k)
        BY <2>3 DEF Layered, OnlyPanel
      <3> QED
        BY <1>1, <2>1, <2>3, <3>1
    <2> QED
      BY <2>2, <2>3
  <1> QED
    BY <1>0, <1>2 DEF Listing, N

LEMMA RelistedKeeps ==
    ASSUME NEW P, NEW M, NEW N, NEW o \in Monitors, Relisted(N, M, o), NEW s
    PROVE  /\ \A u \in Monitors : AreaAt(P, M, u) => AreaAt(P, N, u)
           /\ \A u \in Monitors : LaidAt(M, u) => LaidAt(N, u)
           /\ \A u \in Monitors : Tidy(P, M, u) => Tidy(P, N, u)
           /\ P \in PanelStates /\ Homes(P, M) => Homes(P, N)
           /\ s \in SeatStates /\ Focused(P, M, s) => Focused(P, N, s)
  <1>1. \A u \in Monitors : /\ N[u].plugged = M[u].plugged /\ N[u].on = M[u].on /\ N[u].height = M[u].height
                            /\ N[u].usable = M[u].usable /\ N[u].pending = M[u].pending
                            /\ N[u].laid = M[u].laid
    BY DEF Relisted
  <1>2. \A u \in Monitors : AreaAt(P, M, u) => AreaAt(P, N, u)
    BY <1>1 DEF AreaAt
  <1>3. \A u \in Monitors : LaidAt(M, u) => LaidAt(N, u)
    BY <1>1 DEF LaidAt
  <1>4. P \in PanelStates /\ Homes(P, M) => Homes(P, N)
    <2>1. P \in PanelStates => \A p \in Panels : P[p].phase # "none" => P[p].on \in Monitors
      BY DEF PanelStates, PanelKinds, Shaped
    <2> QED
      BY <1>1, <2>1 DEF Homes
  <1>5. s \in SeatStates /\ Focused(P, M, s) => Focused(P, N, s)
    <2>1. s \in SeatStates => s.on \in Monitors
      BY DEF SeatStates
    <2> QED
      BY <1>1, <2>1 DEF Focused
  <1> QED
    BY <1>2, <1>3, <1>4, <1>5 DEF Tidy

-----------------------------------------------------------------------------
(* A panel goes *)

\* The monitors are the same ones, and of the same height.
Lasting(N, M) ==
    \A o \in Monitors : N[o].plugged = M[o].plugged /\ N[o].on = M[o].on /\ N[o].height = M[o].height

LEMMA PutPanel ==
    ASSUME NEW P \in PanelStates, NEW p \in Panels, NEW r \in PanelKinds, NEW Q, Q = [P EXCEPT ![p] = r]
    PROVE  Q \in PanelStates /\ Q[p] = r /\ OnlyPanel(Q, P, p)
  BY DEF PanelStates, OnlyPanel

LEMMA NoPanelIs == NoPanel \in PanelKinds
  BY FiniteLayers DEF NoPanel, PanelKinds, PanelRecords, Shaped, Phases

\* A world with another panel, other monitors and other popups.
LEMMA PutWorld ==
    ASSUME NEW g \in Worlds, NEW Q \in PanelStates, NEW N \in MonitorStates, NEW s \in SeatStates,
           NEW U \in PopupStates, NEW h,
           h = [g EXCEPT !.panel = Q, !.monitor = N, !.seat = s, !.popup = U]
    PROVE  h \in Worlds /\ h.panel = Q /\ h.monitor = N /\ h.seat = s /\ h.popup = U
  BY DEF Worlds

OthersStay(Q, P, p) ==
    \A q \in Panels : q # p => Q[q].phase = P[q].phase /\ Q[q].on = P[q].on

LEMMA ForgottenIs ==
    ASSUME NEW s \in SeatStates, NEW P, NEW M, NEW Q, NEW N, Focused(P, M, s), NEW p \in Panels,
           NEW o \in Monitors, P[p].on = o, N[s.on].on = M[s.on].on,
           OthersStay(Q, P, p)
    PROVE  Forgotten(s, p, o) \in SeatStates /\ Focused(Q, N, Forgotten(s, p, o))
  <1> DEFINE t == Forgotten(s, p, o)
             x == IF s.layer[o] = p THEN Nothing ELSE s.layer[o]
             ly == [s.layer EXCEPT ![o] = x]
             k == IF s.layer[o] = p THEN Nothing ELSE s.keyboard
  <1>1. /\ s.layer \in [Monitors -> Panels \cup {Nothing}] /\ s.on \in Monitors
        /\ s.keyboard \in Panels \cup {"view", Nothing}
        /\ s.layer[o] \in Panels \cup {Nothing}
    BY DEF SeatStates
  <1>2. t = [s EXCEPT !.layer = ly, !.keyboard = k]
    BY DEF Forgotten
  <1>3. x \in Panels \cup {Nothing} /\ k \in Panels \cup {"view", Nothing}
    BY <1>1
  <1>4. ly \in [Monitors -> Panels \cup {Nothing}] /\ \A u \in Monitors : ly[u] = IF u = o THEN x ELSE s.layer[u]
    BY <1>1, <1>3
  <1> HIDE DEF t, ly, k
  <1>5. t \in SeatStates /\ t.on = s.on /\ t.view = s.view /\ t.layer = ly /\ t.keyboard = k
    BY <1>2, <1>3, <1>4 DEF SeatStates
  <1>6. p # Nothing
    BY PanelAssumption
  <1>7. ASSUME NEW u \in Monitors, ly[u] # Nothing PROVE ly[u] = s.layer[u] /\ ly[u] # p
    BY <1>4, <1>7 DEF Focused
  <1>8. ASSUME NEW u \in Monitors, ly[u] # Nothing
        PROVE  u = s.on /\ ~s.view /\ Q[ly[u]].phase = "mapped" /\ Q[ly[u]].on = u
    <2>1. ly[u] \in Panels
      BY <1>4, <1>8
    <2> QED
      BY <1>7, <1>8, <2>1 DEF Focused, OthersStay
  <1>9. k = IF ly[s.on] # Nothing THEN ly[s.on] ELSE IF s.view THEN "view" ELSE Nothing
    <2>1. CASE s.layer[o] = p
      <3>1. o = s.on /\ ~s.view
        BY <1>6, <2>1 DEF Focused
      <3> QED
        BY <1>4, <2>1, <3>1 DEF k
    <2>2. CASE s.layer[o] # p
      <3>1. ly[s.on] = s.layer[s.on]
        BY <1>1, <1>4, <2>2
      <3> QED
        BY <2>2, <3>1 DEF k, Focused
    <2> QED
      BY <2>1, <2>2
  <1>10. Focused(Q, N, t)
    BY <1>5, <1>8, <1>9 DEF Focused
  <1> QED
    BY <1>5, <1>10 DEF t

\* What is left when a panel has gone, to no panel or to one that is not mapped.
Without(h, g, p) ==
    /\ Orderly(h) /\ NoneNew(h.panel)
    /\ \A q \in Panels : q # p => Alike(h.panel[q], g.panel[q])
    /\ Lasting(h.monitor, g.monitor)

LEMMA UnmapIs ==
    ASSUME NEW g, Orderly(g), NoneNew(g.panel), NEW p \in Panels, g.panel[p].phase = "mapped"
    PROVE  Without(Unmap(g, p), g, p) /\ Unmap(g, p).panel[p].phase = "bare"
  <1> DEFINE P == g.panel
             M == g.monitor
             o == P[p].on
             r == [P[p] EXCEPT !.phase = "bare"]
             Q == [P EXCEPT ![p] = r]
             N == Unlist(M, o, p)
             w == [g EXCEPT !.panel = Q, !.monitor = N]
             k == Arrange(w, o)
             t == Forgotten(g.seat, p, o)
             h == Unmap(g, p)
  <1>1. /\ g \in Worlds /\ P \in PanelStates /\ M \in MonitorStates /\ g.seat \in SeatStates
        /\ g.popup \in PopupStates /\ P[p] \in PanelKinds /\ P[p].phase = "mapped"
        /\ Listing(P, M) /\ Homes(P, M) /\ Hanging(P, g.popup) /\ Focused(P, M, g.seat)
        /\ \A u \in Monitors : Tidy(P, M, u)
        /\ \A q \in Panels : Agreed(P[q]) /\ ~P[q].asks
    BY DEF Orderly, Fitting, Worlds, PanelStates, AllTidy, AllAgreed, AllAnswered
  <1>2. o \in Monitors
    BY <1>1 DEF PanelKinds, Shaped
  <1>3. /\ r \in PanelKinds /\ r.phase = "bare" /\ r.on = o /\ r.zone = P[p].zone /\ r.cur = P[p].cur
        /\ r.asks = P[p].asks
    <2>1. /\ r \in PanelRecords /\ r.phase = "bare" /\ r.on = o /\ r.zone = P[p].zone /\ r.cur = P[p].cur
          /\ r.asks = P[p].asks
      BY <1>1 DEF PanelKinds, PanelRecords, Phases
    <2> QED
      BY <1>1, <2>1 DEF PanelKinds, Shaped
  <1>4. h = [k EXCEPT !.seat = t]
    BY DEF Unmap
  <1> HIDE DEF r, h
  <1>5. Q \in PanelStates /\ Q[p] = r /\ OnlyPanel(Q, P, p)
    BY <1>1, <1>3, PutPanel
  <1>6. Unlisted(N, M, o, p)
    BY <1>1, <1>2, UnlistIs
  <1>7. N \in MonitorStates /\ Relisted(N, M, o)
    BY <1>6 DEF Unlisted, Relisted
  <1>8. Listing(Q, N)
    <2>1. ~InAList(Q[p]) /\ (InAList(P[p]) => P[p].on = o)
      BY <1>3, <1>5 DEF InAList
    <2> HIDE DEF o, P, M, Q
    <2> QED
      BY <1>1, <1>2, <1>5, <2>1, UnlistListing
  <1> HIDE DEF Q, N
  <1>9. /\ w \in Worlds /\ w.panel = Q /\ w.monitor = N /\ w.seat = g.seat /\ w.popup = g.popup
    BY <1>1, <1>5, <1>7 DEF Worlds
  <1> HIDE DEF w
  <1>10. Homes(Q, N)
    <2>1. Homes(Q, M)
      BY <1>1, <1>3, <1>5 DEF Homes, OnlyPanel
    <2> HIDE DEF M, P, o
    <2> QED
      BY <1>2, <1>5, <1>7, <2>1, RelistedKeeps
  <1>11. Hanging(Q, g.popup)
    BY <1>1, <1>3, <1>5 DEF Hanging, OnlyPanel
  <1>12. Fitting(w) /\ NoneNew(Q)
    <2>1. NoneNew(Q)
      BY <1>3, <1>5 DEF NoneNew, OnlyPanel
    <2> QED
      BY <1>8, <1>9, <1>10, <1>11, <2>1 DEF Fitting
  <1>13. \A u \in Monitors : SameArea(N[u], M[u])
    BY <1>7 DEF Relisted, SameArea
  <1>14. ASSUME NEW u \in Monitors, u # o PROVE Tidy(Q, N, u)
    <2>1. SameStrips(Q, P, u)
      <3>1. \A q \in Panels : P[q].on = u \/ Q[q].on = u => Q[q] = P[q]
        BY <1>3, <1>5, <1>14 DEF OnlyPanel
      <3> QED
        BY <3>1 DEF SameStrips, Reserving
    <2>2. SameArea(N[u], M[u]) /\ Tidy(P, M, u)
      BY <1>1, <1>13
    <2> HIDE DEF P, M, o
    <2> QED
      BY <1>1, <2>1, <2>2, StripsTidy
  <1>15. LaidAt(N, o)
    BY <1>1, <1>2, <1>13 DEF SameArea, LaidAt, Tidy
  <1>16. Arranged(k, w, o)
    <2>1. \A q \in Stacked(w.panel, o) : w.panel[q].phase # "new"
      BY <1>9, <1>12 DEF NoneNew, Stacked
    <2>2. Listing(w.panel, w.monitor) /\ w \in Worlds
      BY <1>8, <1>9
    <2> HIDE DEF o
    <2> QED
      BY <1>2, <2>1, <2>2, ArrangeIs
  <1> HIDE DEF k, o
  <1>17. /\ Fitting(k) /\ AllAlike(k.panel, Q) /\ SameMonitors(k.monitor, N)
         /\ Tidy(k.panel, k.monitor, o)
         /\ \A u \in Monitors : u # o => Tidy(k.panel, k.monitor, u)
         /\ NoneNew(k.panel)
    <2>1. /\ Fitting(k) /\ AllAlike(k.panel, w.panel) /\ SameMonitors(k.monitor, w.monitor)
          /\ LaidAt(w.monitor, o) => Tidy(k.panel, k.monitor, o)
          /\ \A u \in Monitors : u # o /\ Tidy(w.panel, w.monitor, u) => Tidy(k.panel, k.monitor, u)
          /\ NoneNew(w.panel) => NoneNew(k.panel)
      BY <1>2, <1>12, <1>16, ArrangeKeeps
    <2> QED
      BY <1>9, <1>12, <1>14, <1>15, <2>1
  <1>18. Lasting(k.monitor, M)
    BY <1>2, <1>7, <1>9, <1>16 DEF Arranged, SameButArea, Lasting, Relisted
  <1>19. \A q \in Panels : Agreed(k.panel[q])
    <2>1. \A q \in Panels : Agreed(Q[q])
      BY <1>1, <1>3, <1>5 DEF Agreed, OnlyPanel
    <2>2. k.panel \in PanelStates
      BY <1>17 DEF Fitting, Worlds
    <2> QED
      BY <1>5, <1>17, <2>1, <2>2, AlikeKeepsPanels
  <1>20. \A q \in Panels : ~k.panel[q].asks
    <2>1. \A q \in Panels : ~Q[q].asks
      BY <1>1, <1>3, <1>5 DEF OnlyPanel
    <2> QED
      BY <1>9, <1>16, <2>1 DEF Arranged
  <1>21. t \in SeatStates /\ Focused(k.panel, k.monitor, t)
    <2>1. OthersStay(k.panel, P, p)
      BY <1>5, <1>17 DEF AllAlike, Alike, OnlyPanel, OthersStay
    <2>2. k.monitor[g.seat.on].on = M[g.seat.on].on
      BY <1>1, <1>18 DEF Lasting, SeatStates
    <2>3. P[p].on = o /\ Focused(P, M, g.seat)
      BY <1>1 DEF o
    <2> HIDE DEF P, M
    <2> DEFINE s == g.seat
               R == k.panel
               L == k.monitor
    <2>4. s \in SeatStates /\ Focused(P, M, s) /\ L[s.on].on = M[s.on].on /\ OthersStay(R, P, p)
      BY <1>1, <2>1, <2>2, <2>3
    <2> HIDE DEF s, R, L
    <2>5. Forgotten(s, p, o) \in SeatStates /\ Focused(R, L, Forgotten(s, p, o))
      BY <1>2, <2>3, <2>4, ForgottenIs
    <2> QED
      BY <2>5 DEF s, R, L
  <1> HIDE DEF t
  <1>22. /\ h \in Worlds /\ h.panel = k.panel /\ h.monitor = k.monitor /\ h.seat = t /\ h.popup = k.popup
    BY <1>4, <1>17, <1>21 DEF Fitting, Worlds
  <1>23. Orderly(h)
    BY <1>17, <1>19, <1>20, <1>21, <1>22 DEF Orderly, Fitting, AllTidy, AllAgreed, AllAnswered
  <1>24. \A q \in Panels : q # p => Alike(h.panel[q], P[q])
    BY <1>5, <1>17, <1>22 DEF AllAlike, OnlyPanel
  <1>25. h.panel[p].phase = "bare"
    BY <1>3, <1>5, <1>17, <1>22 DEF AllAlike, Alike
  <1> QED
    BY <1>17, <1>18, <1>22, <1>23, <1>24, <1>25 DEF Without, h

LEMMA FiniIs ==
    ASSUME NEW g, Orderly(g), NoneNew(g.panel), NEW p \in Panels, g.panel[p].phase \in {"asked", "bare"}
    PROVE  Without(Fini(g, p), g, p) /\ Fini(g, p).panel[p] = NoPanel
  <1> DEFINE P == g.panel
             M == g.monitor
             U == g.popup
             o == P[p].on
             Q == [P EXCEPT ![p] = NoPanel]
             N == Unlist(M, o, p)
             W == [q \in Popups |-> IF U[q].owner = p THEN NoPopup ELSE U[q]]
             h == Fini(g, p)
  <1>1. /\ g \in Worlds /\ P \in PanelStates /\ M \in MonitorStates /\ g.seat \in SeatStates
        /\ U \in PopupStates /\ P[p] \in PanelKinds
        /\ Listing(P, M) /\ Homes(P, M) /\ Hanging(P, U) /\ Focused(P, M, g.seat)
        /\ \A u \in Monitors : Tidy(P, M, u)
        /\ \A q \in Panels : Agreed(P[q]) /\ ~P[q].asks
    BY DEF Orderly, Fitting, Worlds, PanelStates, AllTidy, AllAgreed, AllAnswered
  <1>2. o \in Monitors
    BY <1>1 DEF PanelKinds, Shaped
  <1>3. h = [g EXCEPT !.panel = Q, !.monitor = N, !.popup = W]
    BY DEF Fini
  <1> HIDE DEF h
  <1>4. Q \in PanelStates /\ Q[p] = NoPanel /\ OnlyPanel(Q, P, p)
    BY <1>1, NoPanelIs, PutPanel
  <1>5. Unlisted(N, M, o, p)
    BY <1>1, <1>2, UnlistIs
  <1>6. N \in MonitorStates /\ Relisted(N, M, o)
    BY <1>5 DEF Unlisted, Relisted
  <1>7. Listing(Q, N)
    <2>1. ~InAList(Q[p]) /\ (InAList(P[p]) => P[p].on = o)
      BY <1>4 DEF InAList, NoPanel
    <2> HIDE DEF o, P, M, Q
    <2> QED
      BY <1>1, <1>2, <1>4, <2>1, UnlistListing
  <1>8. W \in PopupStates /\ \A q \in Popups : W[q] = IF U[q].owner = p THEN NoPopup ELSE U[q]
    <2>1. NoPopup \in PopupKinds
      BY DEF NoPopup, PopupKinds
    <2>2. \A q \in Popups : U[q] \in PopupKinds
      BY <1>1 DEF PopupStates
    <2> QED
      BY <2>1, <2>2 DEF PopupStates
  <1> HIDE DEF Q, N, W
  <1>9. /\ h \in Worlds /\ h.panel = Q /\ h.monitor = N /\ h.seat = g.seat /\ h.popup = W
    BY <1>1, <1>3, <1>4, <1>6, <1>8 DEF Worlds
  <1> HIDE DEF h
  <1>10. Homes(Q, N)
    <2>1. Homes(Q, M)
      BY <1>1, <1>4 DEF Homes, OnlyPanel, NoPanel
    <2> HIDE DEF M, P, o
    <2> QED
      BY <1>2, <1>4, <1>6, <2>1, RelistedKeeps
  <1>11. Hanging(Q, W)
    <2> SUFFICES ASSUME NEW q \in Popups, W[q] # NoPopup
                 PROVE  /\ W[q].parent \in Panels \cup Popups /\ W[q].owner \in Panels
                        /\ Q[W[q].owner].phase \in {"mapped", "bare"}
                        /\ IF W[q].parent \in Panels THEN W[q].parent = W[q].owner
                           ELSE W[W[q].parent].owner = W[q].owner
      BY DEF Hanging
    <2>1. W[q] = U[q] /\ U[q].owner # p /\ U[q] # NoPopup
      BY <1>8
    <2>2. /\ U[q].parent \in Panels \cup Popups /\ U[q].owner \in Panels
          /\ P[U[q].owner].phase \in {"mapped", "bare"}
          /\ IF U[q].parent \in Panels THEN U[q].parent = U[q].owner
             ELSE U[U[q].parent].owner = U[q].owner
      BY <1>1, <2>1 DEF Hanging
    <2>3. Q[U[q].owner] = P[U[q].owner]
      BY <1>4, <2>1, <2>2 DEF OnlyPanel
    <2>4. U[q].parent \notin Panels => W[U[q].parent] = U[U[q].parent]
      BY <1>8, <2>1, <2>2
    <2> QED
      BY <2>1, <2>2, <2>3, <2>4
  <1>12. NoneNew(Q)
    BY <1>4 DEF NoneNew, OnlyPanel, NoPanel
  <1>13. \A u \in Monitors : SameArea(N[u], M[u])
    BY <1>6 DEF Relisted, SameArea
  <1>14. ASSUME NEW u \in Monitors PROVE Tidy(Q, N, u)
    <2>1. SameStrips(Q, P, u)
      <3>1. ~Reserves(P[p]) /\ ~Reserves(Q[p])
        BY <1>4 DEF Reserves, NoPanel
      <3> QED
        BY <1>4, <3>1 DEF SameStrips, Reserving, OnlyPanel
    <2>2. SameArea(N[u], M[u]) /\ Tidy(P, M, u)
      BY <1>1, <1>13
    <2> HIDE DEF P, M, o
    <2> QED
      BY <1>1, <2>1, <2>2, StripsTidy
  <1>15. \A q \in Panels : Agreed(Q[q]) /\ ~Q[q].asks
    BY <1>1, <1>4 DEF Agreed, NoPanel, OnlyPanel
  <1>16. Lasting(N, M)
    BY <1>6 DEF Lasting, Relisted
  <1>17. Focused(Q, N, g.seat)
    <2>1. Focused(Q, M, g.seat)
      <3>1. \A u \in Monitors : g.seat.layer[u] # Nothing => g.seat.layer[u] \in Panels /\ g.seat.layer[u] # p
        BY <1>1 DEF Focused, SeatStates
      <3> QED
        BY <1>1, <1>4, <3>1 DEF Focused, OnlyPanel
    <2> DEFINE s == g.seat
    <2>2. s \in SeatStates /\ Focused(Q, M, s)
      BY <1>1, <2>1
    <2> HIDE DEF M, P, o, s
    <2>3. Focused(Q, N, s)
      BY <1>2, <1>6, <2>2, RelistedKeeps
    <2> QED
      BY <2>3 DEF s
  <1>18. Orderly(h)
    BY <1>7, <1>9, <1>10, <1>11, <1>14, <1>15, <1>17 DEF Orderly, Fitting, AllTidy, AllAgreed, AllAnswered
  <1>19. \A q \in Panels : q # p => Alike(h.panel[q], P[q])
    BY <1>4, <1>9 DEF Alike, OnlyPanel
  <1>20. h.panel[p] = NoPanel
    BY <1>4, <1>9
  <1> QED
    BY <1>9, <1>12, <1>16, <1>18, <1>19, <1>20 DEF Without, h

LEMMA FocusedOrderly ==
    ASSUME PanelRaces = {}, NEW g, Orderly(g), NEW h \in CursorFocus(g)
    PROVE  Orderly(h) /\ h.panel = g.panel /\ h.monitor = g.monitor /\ h.popup = g.popup
  <1>1. FocusMoved(h, g)
    BY CursorFocusIs DEF Orderly, Fitting
  <1> QED
    BY <1>1 DEF FocusMoved, Orderly, Fitting, AllTidy, AllAgreed, AllAnswered

LEMMA DestroyedIs ==
    ASSUME PanelRaces = {}, NEW g, Orderly(g), NoneNew(g.panel), NEW p \in Panels,
           g.panel[p].phase # "none", NEW h \in Destroyed(g, p)
    PROVE  Without(h, g, p) /\ h.panel[p] = NoPanel
  <1>1. CASE g.panel[p].phase = "mapped"
    <2>1. PICK k \in CursorFocus(Unmap(g, p)) : h = Fini(k, p)
      BY <1>1 DEF Destroyed
    <2> DEFINE u == Unmap(g, p)
    <2>2. Without(u, g, p) /\ u.panel[p].phase = "bare"
      BY <1>1, UnmapIs
    <2>3. k \in CursorFocus(u)
      OBVIOUS
    <2> HIDE DEF u
    <2>4. Orderly(k) /\ k.panel = u.panel /\ k.monitor = u.monitor
      BY <2>2, <2>3, FocusedOrderly DEF Without
    <2>5. NoneNew(k.panel) /\ k.panel[p].phase \in {"asked", "bare"}
      BY <2>2, <2>4 DEF Without
    <2>6. Without(Fini(k, p), k, p) /\ Fini(k, p).panel[p] = NoPanel
      BY <2>4, <2>5, FiniIs
    <2>7. Without(h, k, p) /\ h.panel[p] = NoPanel
      BY <2>1, <2>6
    <2>8. \A q \in Panels : q # p => Alike(h.panel[q], g.panel[q])
      BY <2>2, <2>4, <2>7 DEF Without, Alike
    <2>9. Lasting(h.monitor, g.monitor)
      BY <2>2, <2>4, <2>7 DEF Without, Lasting
    <2> QED
      BY <2>7, <2>8, <2>9 DEF Without
  <1>2. CASE g.panel[p].phase # "mapped"
    <2>1. g.panel[p].phase \in {"asked", "bare"}
      <3>1. g.panel[p].phase \in Phases
        BY DEF Orderly, Fitting, Worlds, PanelStates, PanelKinds, PanelRecords
      <3> QED
        BY <1>2, <3>1 DEF Phases, NoneNew
    <2>2. h = Fini(g, p)
      BY <1>2 DEF Destroyed
    <2> QED
      BY <2>1, <2>2, FiniIs
  <1> QED
    BY <1>1, <1>2

-----------------------------------------------------------------------------
(* A panel commits *)

\* Orderly, but for what the compositor knows of the last commit of some panel.
Steady(g) ==
    /\ Fitting(g) /\ AllTidy(g) /\ Focused(g.panel, g.monitor, g.seat)
    /\ AllAnswered(g) /\ NoneNew(g.panel)

LEMMA OrderlyIsSteady ==
    ASSUME NEW g
    PROVE  Orderly(g) /\ NoneNew(g.panel) <=> Steady(g) /\ AllAgreed(g)
  BY DEF Orderly, Steady

\* An output is arranged, the others being tidy.
Ready(w, o) ==
    /\ Fitting(w) /\ NoneNew(w.panel) /\ Focused(w.panel, w.monitor, w.seat)
    /\ LaidAt(w.monitor, o)
    /\ \A u \in Monitors : u # o => Tidy(w.panel, w.monitor, u)
    /\ \A p \in Panels : w.panel[p].asks => p \in Stacked(w.panel, o)

SameBut(h, w) ==
    AllAlike(h.panel, w.panel) /\ SameMonitors(h.monitor, w.monitor) /\ h.seat = w.seat /\ h.popup = w.popup

LEMMA ArrangedSteady ==
    ASSUME NEW w, NEW o \in Monitors, Ready(w, o)
    PROVE  Steady(Arrange(w, o)) /\ SameBut(Arrange(w, o), w)
  <1> DEFINE h == Arrange(w, o)
  <1>1. Arranged(h, w, o)
    <2>1. /\ w \in Worlds /\ Listing(w.panel, w.monitor)
          /\ \A q \in Stacked(w.panel, o) : w.panel[q].phase # "new"
      BY DEF Ready, Fitting, NoneNew, Stacked
    <2> QED
      BY <2>1, ArrangeIs
  <1> HIDE DEF h
  <1>2. /\ Fitting(h) /\ AllAlike(h.panel, w.panel) /\ SameMonitors(h.monitor, w.monitor)
        /\ LaidAt(w.monitor, o) => Tidy(h.panel, h.monitor, o)
        /\ \A u \in Monitors : u # o /\ Tidy(w.panel, w.monitor, u) => Tidy(h.panel, h.monitor, u)
        /\ Focused(w.panel, w.monitor, w.seat) => Focused(h.panel, h.monitor, h.seat)
        /\ NoneNew(w.panel) => NoneNew(h.panel)
    BY <1>1, ArrangeKeeps DEF Ready
  <1>3. AllTidy(h)
    BY <1>2 DEF AllTidy, Ready
  <1>4. AllAnswered(h)
    BY <1>1 DEF AllAnswered, Arranged, Ready
  <1>5. h.seat = w.seat /\ h.popup = w.popup
    BY <1>1 DEF Arranged
  <1>6. Steady(h)
    BY <1>2, <1>3, <1>4 DEF Steady, Ready
  <1> QED
    BY <1>2, <1>5, <1>6 DEF SameBut, h

\* A panel is another one in the same list, or in none as before.
Changed(w, g, p, r) ==
    /\ Fitting(w) /\ w.panel[p] = r /\ OnlyPanel(w.panel, g.panel, p)
    /\ w.monitor = g.monitor /\ w.seat = g.seat /\ w.popup = g.popup
    /\ \A u \in Monitors : u # r.on /\ Tidy(g.panel, g.monitor, u) => Tidy(w.panel, w.monitor, u)

LEMMA ChangedIs ==
    ASSUME NEW g, Fitting(g), NEW p \in Panels, NEW r \in PanelKinds,
           g.panel[p].phase # "none", r.phase # "none", r.on = g.panel[p].on, r.layer = g.panel[p].layer,
           InAList(r) <=> InAList(g.panel[p]),
           g.panel[p].phase \in {"mapped", "bare"} => r.phase \in {"mapped", "bare"}
    PROVE  Changed([g EXCEPT !.panel[p] = r], g, p, r)
  <1> DEFINE P == g.panel
             M == g.monitor
             Q == [P EXCEPT ![p] = r]
             w == [g EXCEPT !.panel[p] = r]
  <1>1. /\ g \in Worlds /\ P \in PanelStates /\ Listing(P, M) /\ Homes(P, M) /\ Hanging(P, g.popup)
        /\ P[p].on \in Monitors
    BY DEF Fitting, Worlds, PanelStates, PanelKinds, Shaped
  <1>2. w = [g EXCEPT !.panel = Q]
    OBVIOUS
  <1>3. Q \in PanelStates /\ Q[p] = r /\ OnlyPanel(Q, P, p)
    BY <1>1, PutPanel
  <1> HIDE DEF Q, w
  <1>4. w \in Worlds /\ w.panel = Q /\ w.monitor = M /\ w.seat = g.seat /\ w.popup = g.popup
    BY <1>1, <1>2, <1>3 DEF Worlds
  <1>5. Listing(Q, M)
    <2>1. \A u \in Monitors : \A l \in 1 .. Layers : Layered(Q, u, l) = Layered(P, u, l)
      BY <1>3 DEF Layered, OnlyPanel
    <2> QED
      BY <1>1, <2>1 DEF Listing
  <1>6. Homes(Q, M)
    BY <1>1, <1>3 DEF Homes, OnlyPanel
  <1>7. Hanging(Q, g.popup)
    BY <1>1, <1>3 DEF Hanging, OnlyPanel
  <1>8. Fitting(w)
    BY <1>4, <1>5, <1>6, <1>7 DEF Fitting
  <1>9. ASSUME NEW u \in Monitors, u # r.on, Tidy(P, M, u) PROVE Tidy(Q, M, u)
    <2>1. SameStrips(Q, P, u)
      <3>1. \A q \in Panels : P[q].on = u \/ Q[q].on = u => Q[q] = P[q]
        BY <1>3, <1>9 DEF OnlyPanel
      <3> QED
        BY <3>1 DEF SameStrips, Reserving
    <2>2. SameArea(M[u], M[u])
      BY DEF SameArea
    <2> HIDE DEF P, M
    <2> QED
      BY <1>1, <1>9, <2>1, <2>2, StripsTidy
  <1> QED
    BY <1>3, <1>4, <1>8, <1>9 DEF Changed, w

CommittedBy(t, r, ph, s, z, a) ==
    /\ t \in PanelKinds /\ t.phase = ph /\ t.on = r.on /\ t.cur = s /\ t.layer = r.layer
    /\ t.zone = z /\ t.asks = a /\ t.y = r.y

LEMMA RememberedIs ==
    ASSUME NEW r \in PanelKinds, NEW s \in LayerStates, NEW ph \in {"asked", "mapped"}, NEW a \in BOOLEAN,
           r.phase # "none"
    PROVE  /\ CommittedBy([Remembers(r, s) EXCEPT !.phase = ph, !.asks = a], r, ph, s, s.zone, a)
           /\ r.phase = ph => /\ CommittedBy([Remembers(r, s) EXCEPT !.asks = a], r, ph, s, s.zone, a)
                             /\ CommittedBy(Remembers(r, s), r, ph, s, s.zone, r.asks)
           /\ CommittedBy([r EXCEPT !.cur = s, !.phase = ph], r, ph, s, r.zone, r.asks)
  <1>1. r \in PanelRecords /\ Shaped(r) /\ s.zone \in Zones /\ ph \in Phases
    BY DEF PanelKinds, LayerStates, Phases
  <1> DEFINE t1 == [Remembers(r, s) EXCEPT !.phase = ph, !.asks = a]
             t2 == [Remembers(r, s) EXCEPT !.asks = a]
             t3 == Remembers(r, s)
             t4 == [r EXCEPT !.cur = s, !.phase = ph]
  <1>2. /\ t1 \in PanelRecords /\ t1.phase = ph /\ t1.on = r.on /\ t1.cur = s /\ t1.layer = r.layer
        /\ t1.zone = s.zone /\ t1.asks = a /\ t1.y = r.y
    BY <1>1 DEF PanelRecords, Remembers
  <1>3. /\ t2 \in PanelRecords /\ t2.phase = r.phase /\ t2.on = r.on /\ t2.cur = s /\ t2.layer = r.layer
        /\ t2.zone = s.zone /\ t2.asks = a /\ t2.y = r.y
    BY <1>1 DEF PanelRecords, Remembers
  <1>4. /\ t3 \in PanelRecords /\ t3.phase = r.phase /\ t3.on = r.on /\ t3.cur = s /\ t3.layer = r.layer
        /\ t3.zone = s.zone /\ t3.asks = r.asks /\ t3.y = r.y
    BY <1>1 DEF PanelRecords, Remembers
  <1>5. /\ t4 \in PanelRecords /\ t4.phase = ph /\ t4.on = r.on /\ t4.cur = s /\ t4.layer = r.layer
        /\ t4.zone = r.zone /\ t4.asks = r.asks /\ t4.y = r.y
    BY <1>1 DEF PanelRecords
  <1> HIDE DEF t1, t2, t3, t4
  <1>6. t1 \in PanelKinds
    BY <1>1, <1>2 DEF PanelKinds, Shaped
  <1>7. r.phase = ph => t2 \in PanelKinds
    BY <1>1, <1>3 DEF PanelKinds, Shaped
  <1>8. r.phase = ph => t3 \in PanelKinds
    BY <1>1, <1>4 DEF PanelKinds, Shaped
  <1>9. t4 \in PanelKinds
    BY <1>1, <1>5 DEF PanelKinds, Shaped
  <1> QED
    BY <1>2, <1>3, <1>4, <1>5, <1>6, <1>7, <1>8, <1>9 DEF CommittedBy, t1, t2, t3, t4

\* A panel is listed in the layer of its last commit.
Relayered(w, g, p, s) ==
    /\ Fitting(w) /\ OnlyPanel(w.panel, g.panel, p)
    /\ w.panel[p].phase = g.panel[p].phase /\ w.panel[p].on = g.panel[p].on /\ w.panel[p].cur = g.panel[p].cur
    /\ w.panel[p].zone = g.panel[p].zone /\ w.panel[p].asks = g.panel[p].asks /\ w.panel[p].y = g.panel[p].y
    /\ w.panel[p].layer = s.layer
    /\ \A u \in Monitors : SameArea(w.monitor[u], g.monitor[u])
    /\ Lasting(w.monitor, g.monitor)
    /\ w.seat = g.seat /\ w.popup = g.popup

LEMMA RelistIs ==
    ASSUME NEW g, Fitting(g), NEW p \in Panels, g.panel[p].phase = "mapped", NEW s \in LayerStates
    PROVE  Relayered(Relist(g, p, s), g, p, s)
  <1> DEFINE P == g.panel
             M == g.monitor
             o == P[p].on
             l == s.layer
             b == [P[p] EXCEPT !.phase = "bare"]
             B == [P EXCEPT ![p] = b]
             r == [P[p] EXCEPT !.layer = l]
             Q == [P EXCEPT ![p] = r]
             K == Unlist(M, o, p)
             N == Enlist(K, o, p, l)
             w == Relist(g, p, s)
  <1>1. /\ g \in Worlds /\ P \in PanelStates /\ M \in MonitorStates /\ P[p] \in PanelKinds
        /\ Listing(P, M) /\ Homes(P, M) /\ Hanging(P, g.popup) /\ P[p].phase = "mapped"
    BY DEF Fitting, Worlds, PanelStates
  <1>2. o \in Monitors /\ l \in 1 .. Layers
    BY <1>1 DEF PanelKinds, Shaped, LayerStates
  <1>3. CASE P[p].layer = l
    <2>1. w = g
      BY <1>3 DEF Relist
    <2> QED
      BY <1>3, <2>1 DEF Relayered, OnlyPanel, SameArea, Lasting
  <1>4. CASE P[p].layer # l
    <2>1. w = [g EXCEPT !.monitor = N, !.panel = Q]
      BY <1>4 DEF Relist
    <2>2. /\ r \in PanelKinds /\ r.phase = "mapped" /\ r.on = o /\ r.cur = P[p].cur /\ r.layer = l
          /\ r.zone = P[p].zone /\ r.asks = P[p].asks /\ r.y = P[p].y
      <3>1. /\ r \in PanelRecords /\ r.phase = "mapped" /\ r.on = o /\ r.cur = P[p].cur /\ r.layer = l
            /\ r.zone = P[p].zone /\ r.asks = P[p].asks /\ r.y = P[p].y
        BY <1>1, <1>2 DEF PanelKinds, PanelRecords
      <3> QED
        BY <1>1, <3>1 DEF PanelKinds, Shaped
    <2>3. b \in PanelKinds /\ b.phase = "bare"
      <3>1. /\ b \in PanelRecords /\ b.phase = "bare" /\ b.on = o /\ b.cur = P[p].cur
        BY <1>1 DEF PanelKinds, PanelRecords, Phases
      <3> QED
        BY <1>1, <3>1 DEF PanelKinds, Shaped
    <2> HIDE DEF r, b, w
    <2>4. Q \in PanelStates /\ Q[p] = r /\ OnlyPanel(Q, P, p)
      BY <1>1, <2>2, PutPanel
    <2>5. B \in PanelStates /\ B[p] = b /\ OnlyPanel(B, P, p)
      BY <1>1, <2>3, PutPanel
    <2> HIDE DEF Q, B
    <2>6. Unlisted(K, M, o, p)
      BY <1>1, <1>2, UnlistIs
    <2>7. Listing(B, K)
      <3>1. ~InAList(B[p]) /\ (InAList(P[p]) => P[p].on = o)
        BY <2>3, <2>5 DEF InAList
      <3> HIDE DEF o, P, M
      <3> QED
        BY <1>1, <1>2, <2>5, <3>1, UnlistListing
    <2>8. K \in MonitorStates /\ Relisted(K, M, o)
      BY <2>6 DEF Unlisted, Relisted
    <2> HIDE DEF K
    <2>9. Listing(Q, N) /\ p \notin ToSet(K[o].list[l])
      <3>1. ~InAList(B[p]) /\ InAList(Q[p]) /\ Q[p].on = o /\ Q[p].layer = l
        BY <2>2, <2>3, <2>4, <2>5 DEF InAList
      <3>2. OnlyPanel(Q, B, p)
        BY <2>4, <2>5 DEF OnlyPanel
      <3> HIDE DEF o, P, M, l
      <3> QED
        BY <1>2, <2>5, <2>7, <2>8, <3>1, <3>2, EnlistListing
    <2>10. Enlisted(N, K, o, p, l)
      <3> HIDE DEF o, l
      <3> QED
        BY <1>2, <2>8, <2>9, EnlistIs
    <2>11. N \in MonitorStates /\ Relisted(N, K, o)
      BY <2>10 DEF Enlisted, Relisted
    <2> HIDE DEF N
    <2>12. Relisted(N, M, o)
      BY <2>8, <2>11 DEF Relisted
    <2>13. /\ w \in Worlds /\ w.panel = Q /\ w.monitor = N /\ w.seat = g.seat /\ w.popup = g.popup
      BY <1>1, <2>1, <2>4, <2>11 DEF Worlds
    <2>14. Homes(Q, N)
      <3>1. Homes(Q, M)
        BY <1>1, <2>2, <2>4 DEF Homes, OnlyPanel
      <3> HIDE DEF M, P, o
      <3> QED
        BY <1>2, <2>4, <2>12, <3>1, RelistedKeeps
    <2>15. Hanging(Q, g.popup)
      BY <1>1, <2>2, <2>4 DEF Hanging, OnlyPanel
    <2>16. Fitting(w)
      BY <2>9, <2>13, <2>14, <2>15 DEF Fitting
    <2>17. (\A u \in Monitors : SameArea(N[u], M[u])) /\ Lasting(N, M)
      BY <2>12 DEF Relisted, SameArea, Lasting
    <2> QED
      BY <2>2, <2>4, <2>13, <2>16, <2>17 DEF Relayered, w
  <1> QED
    BY <1>3, <1>4

\* What a commit of a mapped panel finds: the zone it reserves is the one it has committed before,
\* or the one it commits now.
Commits(g, p, s, same) ==
    /\ Steady(g) /\ g.panel[p].phase = "mapped"
    /\ \A q \in Panels : q # p => Agreed(g.panel[q])
    /\ g.panel[p].cur.zone = g.panel[p].zone \/ g.panel[p].cur = s
    /\ same => ~InputsChanged(g.panel[p], s)

LEMMA KeptIs ==
    ASSUME NEW g, NEW p \in Panels, NEW s \in LayerStates, NEW same \in BOOLEAN, Commits(g, p, s, same),
           NEW w, w = Relist(Keeps(g, p, s), p, s)
    PROVE  /\ Ready(w, g.panel[p].on) /\ AllAgreed(w) /\ AllAnswered(w) /\ w.panel[p].on = g.panel[p].on
           /\ ~InputsChanged(g.panel[p], s) => AllTidy(w)
           /\ g.panel[p].on \in Monitors
  <1> DEFINE P == g.panel
             M == g.monitor
             o == P[p].on
             r == Remembers(P[p], s)
             k == Keeps(g, p, s)
  <1>1. /\ Fitting(g) /\ P \in PanelStates /\ P[p] \in PanelKinds /\ P[p].phase = "mapped"
        /\ Focused(P, M, g.seat) /\ NoneNew(P) /\ g.seat \in SeatStates /\ M \in MonitorStates
        /\ (\A q \in Panels : ~P[q].asks) /\ \A u \in Monitors : Tidy(P, M, u)
        /\ \A q \in Panels : q # p => Agreed(P[q])
    BY DEF Commits, Steady, Fitting, Worlds, PanelStates, AllAnswered, AllTidy
  <1>2. o \in Monitors
    BY <1>1 DEF PanelKinds, Shaped
  <1>3. CommittedBy(r, P[p], "mapped", s, s.zone, P[p].asks)
    <2> DEFINE q == P[p]
    <2>1. q \in PanelKinds /\ q.phase = "mapped" /\ q.phase # "none" /\ FALSE \in BOOLEAN
          /\ "mapped" \in {"asked", "mapped"}
      BY <1>1
    <2> HIDE DEF q
    <2>2. CommittedBy(Remembers(q, s), q, "mapped", s, s.zone, q.asks)
      BY <2>1, RememberedIs
    <2> QED
      BY <2>2 DEF q
  <1> HIDE DEF r
  <1>4. /\ r \in PanelKinds /\ r.phase = "mapped" /\ r.on = o /\ r.cur = s /\ r.layer = P[p].layer
        /\ r.zone = s.zone /\ r.asks = P[p].asks /\ r.y = P[p].y
    BY <1>3 DEF CommittedBy
  <1>5. Changed(k, g, p, r)
    <2>1. k = [g EXCEPT !.panel[p] = r]
      BY DEF Keeps, r
    <2>2. /\ P[p].phase # "none" /\ r.phase # "none" /\ (InAList(r) <=> InAList(P[p]))
          /\ (P[p].phase \in {"mapped", "bare"} => r.phase \in {"mapped", "bare"})
      BY <1>1, <1>4 DEF InAList
    <2>3. Changed([g EXCEPT !.panel[p] = r], g, p, r)
      BY <1>1, <1>4, <2>2, ChangedIs
    <2> QED
      BY <2>1, <2>3
  <1> HIDE DEF k
  <1>6. /\ Fitting(k) /\ k.panel[p] = r /\ OnlyPanel(k.panel, P, p)
        /\ k.monitor = M /\ k.seat = g.seat /\ k.popup = g.popup
        /\ \A u \in Monitors : u # o /\ Tidy(P, M, u) => Tidy(k.panel, k.monitor, u)
    BY <1>4, <1>5 DEF Changed
  <1>7. Relayered(w, k, p, s)
    <2>1. w = Relist(k, p, s)
      BY DEF k
    <2> QED
      BY <1>4, <1>6, <2>1, RelistIs
  <1>8. /\ Fitting(w) /\ OnlyPanel(w.panel, k.panel, p)
        /\ w.panel[p].phase = "mapped" /\ w.panel[p].on = o /\ w.panel[p].cur = s
        /\ w.panel[p].zone = s.zone /\ w.panel[p].asks = P[p].asks /\ w.panel[p].y = P[p].y
        /\ w.panel[p].layer = s.layer
        /\ \A u \in Monitors : SameArea(w.monitor[u], M[u])
        /\ Lasting(w.monitor, M)
        /\ w.seat = g.seat
    BY <1>4, <1>6, <1>7 DEF Relayered
  <1>9. OnlyPanel(w.panel, P, p)
    BY <1>6, <1>8 DEF OnlyPanel
  <1>10. NoneNew(w.panel) /\ AllAnswered(w) /\ AllAgreed(w)
    BY <1>1, <1>8, <1>9 DEF NoneNew, AllAnswered, AllAgreed, Agreed, OnlyPanel
  <1>11. Focused(w.panel, w.monitor, w.seat)
    <2>1. \A u \in Monitors : g.seat.layer[u] # Nothing => g.seat.layer[u] \in Panels
      BY <1>1 DEF SeatStates
    <2>2. \A q \in Panels : w.panel[q].phase = P[q].phase /\ w.panel[q].on = P[q].on
      BY <1>1, <1>8, <1>9 DEF OnlyPanel
    <2>3. w.monitor[g.seat.on].on = M[g.seat.on].on
      BY <1>1, <1>8 DEF SeatStates, Lasting
    <2> QED
      BY SMTT(60), <1>1, <1>8, <2>1, <2>2, <2>3 DEF Focused
  <1>12. LaidAt(w.monitor, o)
    BY <1>1, <1>2, <1>8 DEF SameArea, LaidAt, Tidy
  <1>13. ASSUME NEW u \in Monitors, u # o \/ s.zone = P[p].cur.zone
         PROVE  Tidy(w.panel, w.monitor, u)
    <2>1. SameStrips(w.panel, P, u)
      <3>1. p \in Reserving(P, u) \/ p \in Reserving(w.panel, u) => u = o
        BY <1>8 DEF Reserving
      <3>2. CASE u # o
        BY <1>9, <3>1, <3>2 DEF SameStrips, Reserving, OnlyPanel
      <3>3. CASE s.zone = P[p].cur.zone
        <4>1. Reserves(w.panel[p]) <=> Reserves(P[p])
          BY <1>1, <1>8, <3>3 DEF Reserves
        <4>2. Reserving(w.panel, u) = Reserving(P, u)
          BY <1>8, <1>9, <4>1 DEF Reserving, OnlyPanel
        <4>3. ASSUME NEW q \in Reserving(P, u) PROVE w.panel[q].cur.zone = P[q].cur.zone /\ w.panel[q].y = P[q].y
          <5>1. q \in Panels
            BY DEF Reserving
          <5> QED
            BY <1>8, <1>9, <3>3, <5>1 DEF OnlyPanel
        <4> QED
          BY <4>2, <4>3 DEF SameStrips
      <3> QED
        BY <1>13, <3>2, <3>3
    <2>2. SameArea(w.monitor[u], M[u]) /\ Tidy(P, M, u)
      BY <1>1, <1>8
    <2> DEFINE Q == w.panel
               N == w.monitor
    <2>3. SameStrips(Q, P, u) /\ SameArea(N[u], M[u]) /\ Tidy(P, M, u) /\ P \in PanelStates
      BY <1>1, <2>1, <2>2
    <2> HIDE DEF P, M, Q, N
    <2>4. Tidy(Q, N, u)
      BY <2>3, StripsTidy
    <2> QED
      BY <2>4 DEF Q, N
  <1>14. Ready(w, o)
    BY <1>8, <1>10, <1>11, <1>12, <1>13 DEF Ready, AllAnswered
  <1>15. ~InputsChanged(P[p], s) => AllTidy(w)
    <2> SUFFICES ASSUME ~InputsChanged(P[p], s) PROVE s.zone = P[p].cur.zone
      BY <1>13 DEF AllTidy
    <2> QED
      BY DEF InputsChanged, Commits
  <1> QED
    BY <1>2, <1>8, <1>10, <1>14, <1>15

LEMMA MappedCommitIs ==
    ASSUME PanelRaces = {}, NEW g, NEW p \in Panels, NEW s \in LayerStates, NEW same \in BOOLEAN,
           Commits(g, p, s, same), NEW h \in MappedCommit(g, p, s, same)
    PROVE  Orderly(h) /\ NoneNew(h.panel)
  <1> DEFINE w == Relist(Keeps(g, p, s), p, s)
             o == g.panel[p].on
             k == Arrange(w, o)
             e == [k EXCEPT !.fault = @ \cup Echo(same)]
  <1>1. /\ Ready(w, o) /\ AllAgreed(w) /\ AllAnswered(w) /\ w.panel[p].on = o
        /\ ~InputsChanged(g.panel[p], s) => AllTidy(w)
        /\ o \in Monitors
    <2> HIDE DEF w
    <2>1. w = Relist(Keeps(g, p, s), p, s)
      BY DEF w
    <2> QED
      BY <2>1, KeptIs
  <1>2. CASE ~InputsChanged(g.panel[p], s)
    <2>1. h \in CursorFocus(w)
      BY <1>2 DEF MappedCommit
    <2> HIDE DEF w, o
    <2>2. Orderly(w) /\ NoneNew(w.panel)
      BY <1>1, <1>2 DEF Orderly, Ready
    <2> QED
      BY <2>1, <2>2, FocusedOrderly
  <1>3. CASE InputsChanged(g.panel[p], s)
    <2>1. h \in CursorFocus(e)
      BY <1>3 DEF MappedCommit
    <2>2. Echo(same) = {}
      BY <1>3 DEF Commits, Echo
    <2> HIDE DEF w, o
    <2>3. Steady(k) /\ SameBut(k, w)
      BY <1>1, ArrangedSteady
    <2>4. k \in Worlds
      BY <2>3 DEF Steady, Fitting
    <2> HIDE DEF k
    <2>5. e = k
      BY <2>2, <2>4 DEF Worlds
    <2>6. AllAgreed(k)
      <3>1. w.panel \in PanelStates /\ k.panel \in PanelStates /\ AllAlike(k.panel, w.panel)
        BY <1>1, <2>3, <2>4 DEF Ready, Fitting, Worlds, SameBut
      <3> QED
        BY <1>1, <3>1, AlikeKeepsPanels DEF AllAgreed
    <2>7. Orderly(k) /\ NoneNew(k.panel)
      BY <2>3, <2>6, OrderlyIsSteady
    <2> QED
      BY <2>1, <2>5, <2>7, FocusedOrderly
  <1> QED
    BY <1>2, <1>3

-----------------------------------------------------------------------------
(* The outputs of the layout are arranged *)

\* Orderly, but for the areas of the outputs.
Loose(g) ==
    /\ Fitting(g) /\ NoneNew(g.panel) /\ Focused(g.panel, g.monitor, g.seat)
    /\ AllAgreed(g) /\ AllAnswered(g)

\* Only the area of an output starts anew.
AreaReset(h, g, o) ==
    /\ h \in Worlds /\ h.panel = g.panel /\ h.seat = g.seat /\ h.popup = g.popup
    /\ SameMonitors(h.monitor, g.monitor) /\ Lasting(h.monitor, g.monitor)
    /\ \A u \in Monitors : u # o => h.monitor[u] = g.monitor[u]
    /\ h.monitor[o].usable = Base(g.monitor[o].height)
    /\ h.monitor[o].laid = g.monitor[o].laid /\ h.monitor[o].pending = g.monitor[o].pending

LEMMA ResetAreaIs ==
    ASSUME NEW g \in Worlds, NEW o \in Monitors
    PROVE  AreaReset(ResetArea(g, o), g, o)
  <1> DEFINE M == g.monitor
             m == M[o]
             a == Base(m.height)
             n == [m EXCEPT !.usable = a]
             N == [M EXCEPT ![o] = n]
             h == ResetArea(g, o)
  <1>1. M \in MonitorStates /\ m \in MonitorKinds /\ m.height \in Nat
    BY DEF Worlds, MonitorStates, MonitorKinds
  <1>2. a \in Areas
    BY <1>1, BaseType
  <1>3. h = [g EXCEPT !.monitor = N]
    BY DEF ResetArea
  <1> HIDE DEF a, h
  <1>4. /\ n \in MonitorKinds /\ n.usable = a /\ n.plugged = m.plugged /\ n.on = m.on /\ n.list = m.list
        /\ n.height = m.height /\ n.laid = m.laid /\ n.pending = m.pending
    BY <1>1, <1>2 DEF MonitorKinds
  <1> HIDE DEF n
  <1>5. N \in MonitorStates /\ N[o] = n /\ \A u \in Monitors : u # o => N[u] = M[u]
    BY <1>1, <1>4 DEF MonitorStates
  <1> HIDE DEF N
  <1>6. h \in Worlds /\ h.monitor = N /\ h.panel = g.panel /\ h.seat = g.seat /\ h.popup = g.popup
    BY <1>3, <1>5 DEF Worlds
  <1>7. SameMonitors(N, M) /\ Lasting(N, M)
    BY <1>4, <1>5 DEF SameMonitors, Lasting
  <1> QED
    BY <1>4, <1>5, <1>6, <1>7 DEF AreaReset, a, h

\* An output has its area again, and its views will be laid out.
Renewed(h, g, o) ==
    /\ Loose(h) /\ AllAlike(h.panel, g.panel) /\ h.seat = g.seat /\ h.popup = g.popup
    /\ SameMonitors(h.monitor, g.monitor) /\ Lasting(h.monitor, g.monitor)
    /\ Tidy(h.panel, h.monitor, o) /\ h.monitor[o].pending
    /\ \A u \in Monitors : u # o => h.monitor[u] = g.monitor[u]
    /\ \A u \in Monitors : u # o /\ Tidy(g.panel, g.monitor, u) => Tidy(h.panel, h.monitor, u)

LEMMA ResetKeeps ==
    ASSUME NEW g, Loose(g), NEW o \in Monitors, NEW h, AreaReset(h, g, o)
    PROVE  /\ Loose(h)
           /\ \A u \in Monitors : u # o /\ Tidy(g.panel, g.monitor, u) => Tidy(h.panel, h.monitor, u)
  <1> DEFINE P == g.panel
             M == g.monitor
             N == h.monitor
             s == g.seat
  <1>1. /\ g \in Worlds /\ P \in PanelStates /\ s \in SeatStates /\ Listing(P, M) /\ Homes(P, M)
        /\ Hanging(P, g.popup) /\ Focused(P, M, s)
    BY DEF Loose, Fitting, Worlds
  <1>2. /\ h \in Worlds /\ h.panel = P /\ h.seat = s /\ h.popup = g.popup /\ SameMonitors(N, M)
        /\ \A u \in Monitors : u # o => N[u] = M[u]
    BY DEF AreaReset
  <1> HIDE DEF P, M, N, s
  <1>3. Listing(P, N) /\ Homes(P, N) /\ Focused(P, N, s)
    BY <1>1, <1>2, SameMonitorsKeep
  <1>4. Loose(h)
    BY <1>1, <1>2, <1>3 DEF Loose, Fitting, AllAgreed, AllAnswered, P, N, s
  <1>5. ASSUME NEW u \in Monitors, u # o, Tidy(P, M, u) PROVE Tidy(P, N, u)
    BY <1>2, <1>5 DEF Tidy, AreaAt, LaidAt
  <1> QED
    BY <1>2, <1>4, <1>5 DEF P, M, N

LEMMA RelaidIs ==
    ASSUME NEW g, Loose(g), NEW o \in Monitors
    PROVE  Renewed(Relaid(g, o), g, o)
  <1> DEFINE a == ResetArea(g, o)
             k == Arrange(a, o)
             m == k.monitor[o]
             n == [m EXCEPT !.pending = TRUE]
             N == [k.monitor EXCEPT ![o] = n]
             h == Relaid(g, o)
  <1>1. AreaReset(a, g, o)
    BY ResetAreaIs DEF Loose, Fitting
  <1>2. h = [k EXCEPT !.monitor = N]
    BY DEF Relaid
  <1> HIDE DEF a, h
  <1>3. /\ Loose(a)
        /\ \A u \in Monitors : u # o /\ Tidy(g.panel, g.monitor, u) => Tidy(a.panel, a.monitor, u)
    BY <1>1, ResetKeeps
  <1>4. Arranged(k, a, o)
    <2>1. /\ a \in Worlds /\ Listing(a.panel, a.monitor)
          /\ \A q \in Stacked(a.panel, o) : a.panel[q].phase # "new"
      BY <1>3 DEF Loose, Fitting, NoneNew, Stacked
    <2> QED
      BY <2>1, ArrangeIs
  <1> HIDE DEF k
  <1>5. /\ Fitting(k) /\ AllAlike(k.panel, a.panel) /\ SameMonitors(k.monitor, a.monitor)
        /\ \A u \in Monitors : u # o /\ Tidy(a.panel, a.monitor, u) => Tidy(k.panel, k.monitor, u)
        /\ Focused(k.panel, k.monitor, k.seat) /\ AllAgreed(k) /\ NoneNew(k.panel)
    BY <1>3, <1>4, ArrangeKeeps DEF Loose
  <1>6. /\ k \in Worlds /\ k.monitor \in MonitorStates /\ m \in MonitorKinds /\ k.seat \in SeatStates
        /\ k.panel \in PanelStates /\ Listing(k.panel, k.monitor) /\ Homes(k.panel, k.monitor)
        /\ Hanging(k.panel, k.popup)
    BY <1>5 DEF Fitting, Worlds, MonitorStates
  <1>7. /\ n \in MonitorKinds /\ n.pending = TRUE /\ n.plugged = m.plugged /\ n.on = m.on /\ n.list = m.list
        /\ n.height = m.height /\ n.laid = m.laid /\ n.usable = m.usable
    BY <1>6 DEF MonitorKinds
  <1> HIDE DEF n
  <1>8. N \in MonitorStates /\ N[o] = n /\ \A u \in Monitors : u # o => N[u] = k.monitor[u]
    BY <1>6, <1>7 DEF MonitorStates
  <1> HIDE DEF N
  <1>9. h \in Worlds /\ h.monitor = N /\ h.panel = k.panel /\ h.seat = k.seat /\ h.popup = k.popup
    BY <1>2, <1>6, <1>8 DEF Worlds
  <1> HIDE DEF h
  <1>10. SameMonitors(N, k.monitor) /\ Lasting(N, k.monitor)
    BY <1>7, <1>8 DEF SameMonitors, Lasting
  <1> DEFINE P == k.panel
             K == k.monitor
             s == k.seat
  <1>11. Listing(P, N) /\ Homes(P, N) /\ Focused(P, N, s)
    <2>1. /\ P \in PanelStates /\ s \in SeatStates /\ Listing(P, K) /\ Homes(P, K) /\ Focused(P, K, s)
          /\ SameMonitors(N, K)
      BY <1>5, <1>6, <1>10
    <2> HIDE DEF P, K, s
    <2> QED
      BY <2>1, SameMonitorsKeep
  <1>12. AllAnswered(k)
    BY <1>3, <1>4 DEF Arranged, Loose, AllAnswered
  <1>13. Loose(h)
    BY <1>5, <1>6, <1>9, <1>11, <1>12 DEF Loose, Fitting, AllAgreed, AllAnswered
  <1>14. Tidy(h.panel, h.monitor, o) /\ h.monitor[o].pending
    BY <1>4, <1>7, <1>8, <1>9 DEF Tidy, AreaAt, LaidAt, Arranged
  <1>15. ASSUME NEW u \in Monitors, u # o
         PROVE  /\ h.monitor[u] = g.monitor[u]
                /\ Tidy(g.panel, g.monitor, u) => Tidy(h.panel, h.monitor, u)
    <2>1. h.monitor[u] = K[u] /\ K[u] = a.monitor[u] /\ a.monitor[u] = g.monitor[u]
      BY <1>1, <1>4, <1>8, <1>9, <1>15 DEF Arranged, AreaReset
    <2>2. Tidy(g.panel, g.monitor, u) => Tidy(P, K, u)
      BY <1>3, <1>5, <1>15
    <2>3. Tidy(P, K, u) => Tidy(h.panel, h.monitor, u)
      BY <1>9, <2>1 DEF Tidy, AreaAt, LaidAt
    <2> QED
      BY <2>1, <2>2, <2>3
  <1>16. /\ SameMonitors(h.monitor, g.monitor) /\ Lasting(h.monitor, g.monitor)
         /\ AllAlike(h.panel, g.panel) /\ h.seat = g.seat /\ h.popup = g.popup
    <2>1. SameMonitors(h.monitor, g.monitor)
      BY <1>1, <1>5, <1>9, <1>10 DEF SameMonitors, AreaReset
    <2>2. Lasting(k.monitor, a.monitor)
      BY <1>4 DEF Lasting, Arranged, SameButArea
    <2>3. Lasting(h.monitor, g.monitor)
      BY <1>1, <1>9, <1>10, <2>2 DEF Lasting, AreaReset
    <2>4. AllAlike(h.panel, g.panel) /\ h.seat = g.seat /\ h.popup = g.popup
      BY <1>1, <1>4, <1>5, <1>9 DEF AreaReset, Arranged
    <2> QED
      BY <2>1, <2>3, <2>4
  <1> QED
    BY <1>13, <1>14, <1>15, <1>16 DEF Renewed, h

Relaying(h, g, S) ==
    /\ h[{}] = g
    /\ \A s \in SUBSET S : s # {} => \E x \in s : h[s] = Relaid(h[s \ {x}], x)

LooseWorlds == {g \in Worlds : Loose(g)}

LEMMA LayoutSteps ==
    ASSUME NEW g \in LooseWorlds
    PROVE  LET S == {o \in Monitors : g.monitor[o].on} IN
           \E h : LayoutChanged(g) = h[S] /\ Relaying(h, g, S)
  <1> DEFINE S == {o \in Monitors : g.monitor[o].on}
             Picks(s) == CHOOSE x \in s : TRUE
             F(f) == [s \in SUBSET S |-> IF s = {} THEN g ELSE Relaid(f[s \ {Picks(s)}], Picks(s))]
             step == [p \in LooseWorlds \X S |-> Relaid(p[1], p[2])]
             pick == [s \in SUBSET S |-> Picks(s)]
             f0 == CHOOSE f : f = F(f)
  <1>0. LayoutChanged(g) = f0[S]
    BY DEF LayoutChanged, FoldSet, MapThenFoldSet
  <1>1. step \in [LooseWorlds \X S -> LooseWorlds]
    <2> SUFFICES ASSUME NEW p \in LooseWorlds \X S PROVE Relaid(p[1], p[2]) \in LooseWorlds
      OBVIOUS
    <2> DEFINE a == p[1]
               o == p[2]
    <2>1. Loose(a) /\ o \in Monitors
      BY DEF LooseWorlds
    <2> HIDE DEF a, o
    <2>2. Renewed(Relaid(a, o), a, o)
      BY <2>1, RelaidIs
    <2>3. Relaid(a, o) \in LooseWorlds
      BY <2>2 DEF Renewed, LooseWorlds, Loose, Fitting
    <2> QED
      BY <2>3 DEF a, o
  <1>2. \A s \in SUBSET S : s # {} => Picks(s) \in s
    OBVIOUS
  <1>3. \A s \in SUBSET S : pick[s] = Picks(s)
    OBVIOUS
  <1>4. \A e \in LooseWorlds, x \in S : step[<<e, x>>] = Relaid(e, x)
    OBVIOUS
  <1>41. IsFiniteSet(S)
    BY PanelAssumption, FS_Subset
  <1> HIDE DEF step, pick, S
  <1>5. PICK i \in [SUBSET S -> LooseWorlds] : Iterated(i, S, pick, g, step, SUBSET S)
    <2>1. \A s \in SUBSET S : s # {} => pick[s] \in s
      BY <1>2, <1>3
    <2> QED
      BY <1>1, <1>41, <2>1, Iterates
  <1>6. i = F(i)
    <2>1. ASSUME NEW s \in SUBSET S
          PROVE  i[s] = IF s = {} THEN g ELSE Relaid(i[s \ {Picks(s)}], Picks(s))
      <3>1. CASE s = {}
        BY <1>5, <3>1 DEF Iterated
      <3>2. CASE s # {}
        <4>1. Picks(s) \in S /\ pick[s] = Picks(s) /\ s \ {Picks(s)} \in SUBSET S
          BY <1>2, <1>3, <3>2
        <4> HIDE DEF Picks
        <4>2. i[s] = step[<<i[s \ {Picks(s)}], Picks(s)>>]
          BY <1>5, <3>2, <4>1 DEF Iterated
        <4>3. i[s \ {Picks(s)}] \in LooseWorlds
          BY <1>5, <4>1
        <4> QED
          BY <1>4, <3>2, <4>1, <4>2, <4>3
      <3> QED
        BY <3>1, <3>2
    <2> HIDE DEF Picks
    <2> QED
      BY <1>5, <2>1
  <1>7. f0 = F(f0)
    BY <1>6
  <1> HIDE DEF f0, Picks
  <1>8. f0[{}] = g
    BY <1>7
  <1>9. ASSUME NEW s \in SUBSET S, s # {}
        PROVE  \E x \in s : f0[s] = Relaid(f0[s \ {x}], x)
    <2>1. f0[s] = Relaid(f0[s \ {Picks(s)}], Picks(s))
      BY <1>7, <1>9
    <2> QED
      BY <1>2, <1>9, <2>1
  <1>10. Relaying(f0, g, S)
    BY <1>8, <1>9 DEF Relaying
  <1> QED
    BY <1>0, <1>10 DEF S

\* The outputs of s have been arranged.
RenewedAll(h, g, s) ==
    /\ Loose(h) /\ AllAlike(h.panel, g.panel) /\ h.seat = g.seat /\ h.popup = g.popup
    /\ SameMonitors(h.monitor, g.monitor) /\ Lasting(h.monitor, g.monitor)
    /\ \A o \in s : Tidy(h.panel, h.monitor, o) /\ h.monitor[o].pending
    /\ \A u \in Monitors : u \notin s /\ Tidy(g.panel, g.monitor, u) => Tidy(h.panel, h.monitor, u)

LEMMA RenewedStep ==
    ASSUME NEW g, NEW k, NEW s \in SUBSET Monitors, RenewedAll(k, g, s), NEW o \in Monitors, NEW h, Renewed(h, k, o)
    PROVE  RenewedAll(h, g, s \cup {o})
  <1>1. AllAlike(h.panel, g.panel)
    BY DEF RenewedAll, Renewed, AllAlike, Alike
  <1>2. SameMonitors(h.monitor, g.monitor) /\ Lasting(h.monitor, g.monitor)
    BY DEF RenewedAll, Renewed, SameMonitors, Lasting
  <1>3. ASSUME NEW u \in s \cup {o} PROVE Tidy(h.panel, h.monitor, u) /\ h.monitor[u].pending
    BY DEF RenewedAll, Renewed
  <1>4. ASSUME NEW u \in Monitors, u \notin s \cup {o}, Tidy(g.panel, g.monitor, u)
        PROVE  Tidy(h.panel, h.monitor, u)
    BY <1>4 DEF RenewedAll, Renewed
  <1>5. Loose(h) /\ h.seat = g.seat /\ h.popup = g.popup
    BY DEF RenewedAll, Renewed
  <1> QED
    BY <1>1, <1>2, <1>3, <1>4, <1>5 DEF RenewedAll

LEMMA RelayingIs ==
    ASSUME NEW g, Loose(g), NEW S \in SUBSET Monitors, NEW h, Relaying(h, g, S)
    PROVE  RenewedAll(h[S], g, S)
  <1> DEFINE B == {s \in SUBSET S : RenewedAll(h[s], g, s)}
  <1>1. IsFiniteSet(S)
    BY PanelAssumption, FS_Subset
  <1>2. {} \in B
    <2>1. h[{}] = g
      BY DEF Relaying
    <2>2. RenewedAll(g, g, {})
      BY DEF RenewedAll, AllAlike, Alike, SameMonitors, Lasting
    <2> QED
      BY <2>1, <2>2
  <1>3. ASSUME NEW s \in SUBSET S, s # {}, \A x \in s : s \ {x} \in B PROVE s \in B
    <2>1. PICK x \in s : h[s] = Relaid(h[s \ {x}], x)
      BY <1>3 DEF Relaying
    <2> DEFINE t == s \ {x}
               k == h[t]
               n == Relaid(k, x)
    <2>2. RenewedAll(k, g, t) /\ x \in Monitors /\ t \in SUBSET Monitors /\ t \cup {x} = s
      BY <1>3
    <2>3. h[s] = Relaid(k, x)
      BY <2>1
    <2> HIDE DEF t, k
    <2>4. Loose(k)
      BY <2>2 DEF RenewedAll
    <2>5. Renewed(n, k, x)
      BY <2>2, <2>4, RelaidIs
    <2> HIDE DEF n
    <2>6. RenewedAll(n, g, t \cup {x})
      BY <2>2, <2>5, RenewedStep
    <2>7. RenewedAll(h[s], g, s)
      BY <2>2, <2>3, <2>6 DEF n
    <2> QED
      BY <2>7
  <1> HIDE DEF B
  <1>4. S \in B
    BY <1>1, <1>2, <1>3, Shrinks
  <1> QED
    BY <1>4 DEF B

\* All is in order after a change of the layout, and every output in it will lay its views out.
LaidOut(h, g) ==
    /\ Orderly(h) /\ NoneNew(h.panel) /\ AllAlike(h.panel, g.panel) /\ h.seat = g.seat /\ h.popup = g.popup
    /\ SameMonitors(h.monitor, g.monitor) /\ Lasting(h.monitor, g.monitor)
    /\ \A o \in Monitors : g.monitor[o].on => h.monitor[o].pending

LEMMA LayoutIs ==
    ASSUME NEW g, Loose(g), \A u \in Monitors : ~g.monitor[u].on => Tidy(g.panel, g.monitor, u)
    PROVE  LaidOut(LayoutChanged(g), g)
  <1> DEFINE S == {o \in Monitors : g.monitor[o].on}
             k == LayoutChanged(g)
  <1>1. g \in LooseWorlds
    BY DEF LooseWorlds, Loose, Fitting
  <1>2. PICK h : LayoutChanged(g) = h[S] /\ Relaying(h, g, S)
    BY <1>1, LayoutSteps
  <1>3. S \in SUBSET Monitors
    OBVIOUS
  <1>4. RenewedAll(h[S], g, S)
    BY <1>2, <1>3, RelayingIs
  <1>5. RenewedAll(k, g, S)
    BY <1>2, <1>4
  <1> HIDE DEF k
  <1>6. AllTidy(k)
    BY <1>5 DEF AllTidy, RenewedAll
  <1>7. \A o \in Monitors : g.monitor[o].on => k.monitor[o].pending
    BY <1>5 DEF RenewedAll
  <1> HIDE DEF S
  <1>8. Orderly(k)
    BY <1>5, <1>6 DEF RenewedAll, Loose, Orderly
  <1>9. /\ NoneNew(k.panel) /\ AllAlike(k.panel, g.panel) /\ k.seat = g.seat /\ k.popup = g.popup
        /\ SameMonitors(k.monitor, g.monitor) /\ Lasting(k.monitor, g.monitor)
    BY <1>5 DEF RenewedAll, Loose
  <1> QED
    BY <1>7, <1>8, <1>9 DEF LaidOut, k

\* An output with no panels that take a strip has its area anew.
LEMMA ResetOrderly ==
    ASSUME NEW g, Orderly(g), NoneNew(g.panel), NEW o \in Monitors, g.monitor[o].pending,
           Reserving(g.panel, o) = {}
    PROVE  Orderly(ResetArea(g, o)) /\ NoneNew(ResetArea(g, o).panel)
  <1> DEFINE h == ResetArea(g, o)
  <1>1. AreaReset(h, g, o)
    BY ResetAreaIs DEF Orderly, Fitting
  <1> HIDE DEF h
  <1>2. Loose(g)
    BY DEF Loose, Orderly
  <1>3. /\ Loose(h)
        /\ \A u \in Monitors : u # o /\ Tidy(g.panel, g.monitor, u) => Tidy(h.panel, h.monitor, u)
    BY <1>1, <1>2, ResetKeeps
  <1>4. h.panel = g.panel /\ h.monitor[o].pending /\ h.monitor[o].height = g.monitor[o].height
        /\ h.monitor[o].usable = Base(g.monitor[o].height)
    BY <1>1 DEF AreaReset, Lasting
  <1>5. Total(h.panel, Reserving(h.panel, o)) = 0
    BY <1>4, TotalIs, FS_EmptySet
  <1>6. AreaAt(h.panel, h.monitor, o)
    <2>1. BarHeight + 0 = BarHeight
      BY SpaceAssumption
    <2> DEFINE t == Total(h.panel, Reserving(h.panel, o))
    <2>2. t = 0
      BY <1>5
    <2> HIDE DEF t
    <2> QED
      BY <1>4, <2>1, <2>2 DEF AreaAt, LeftBy, Base, t
  <1>7. RowsAt(h.panel, o)
    BY <1>4 DEF RowsAt
  <1>8. Tidy(h.panel, h.monitor, o)
    BY <1>4, <1>6, <1>7 DEF Tidy, LaidAt
  <1>9. AllTidy(h)
    BY <1>3, <1>8 DEF AllTidy, Orderly
  <1> QED
    BY <1>3, <1>9 DEF Orderly, Loose, h

-----------------------------------------------------------------------------
(* What every step keeps: all is in order, and one panel at most waits for its first commit *)

OneNew(P) == \A p, q \in Panels : P[p].phase = "new" /\ P[q].phase = "new" => p = q

PanelsSane == Orderly(World) /\ OneNew(panel)

LEMMA WorldIs ==
    /\ World.panel = panel /\ World.monitor = monitor /\ World.seat = seat
    /\ World.popup = popup /\ World.fault = fault
  BY DEF World

LEMMA BecomesIs ==
    ASSUME NEW h, Orderly(h), NoneNew(h.panel), Becomes(h)
    PROVE  PanelsSane'
  <1>1. h \in Worlds
    BY DEF Orderly, Fitting
  <1>2. World' = [panel |-> h.panel, monitor |-> h.monitor, seat |-> h.seat, popup |-> h.popup, fault |-> h.fault]
    BY DEF World, Becomes
  <1>3. h = [panel |-> h.panel, monitor |-> h.monitor, seat |-> h.seat, popup |-> h.popup, fault |-> h.fault]
    BY <1>1 DEF Worlds
  <1>4. World' = h
    BY <1>2, <1>3
  <1>5. OneNew(h.panel)
    BY DEF OneNew, NoneNew
  <1>6. panel' = h.panel
    BY DEF Becomes
  <1> QED
    BY <1>4, <1>5, <1>6 DEF PanelsSane

LEMMA CreateIs ==
    ASSUME Orderly(World), NoneNew(panel), NEW p \in Panels, NEW o \in Monitors, Create(p, o)
    PROVE  PanelsSane'
  <1> DEFINE P == panel
             M == monitor
             U == popup
             s == seat
  <1>1. /\ World \in Worlds /\ P \in PanelStates /\ M \in MonitorStates /\ s \in SeatStates
        /\ U \in PopupStates /\ fault = {} /\ P[p] \in PanelKinds
        /\ Listing(P, M) /\ Homes(P, M) /\ Hanging(P, U) /\ Focused(P, M, s)
        /\ \A u \in Monitors : Tidy(P, M, u)
        /\ \A q \in Panels : Agreed(P[q]) /\ ~P[q].asks
    BY WorldIs DEF Orderly, Fitting, Worlds, PanelStates, AllTidy, AllAgreed, AllAnswered
  <1>2. PICK l \in 1 .. Layers :
            /\ panel' = [panel EXCEPT ![p] = [NoPanel EXCEPT !.phase = "new", !.on = o, !.layer = l]]
            /\ monitor' = Enlist(monitor, o, p, l)
    BY DEF Create
  <1> DEFINE r == [NoPanel EXCEPT !.phase = "new", !.on = o, !.layer = l]
             Q == [P EXCEPT ![p] = r]
             N == Enlist(M, o, p, l)
             w == World'
  <1>3. /\ P[p].phase = "none" /\ M[o].plugged /\ seat' = s /\ popup' = U /\ fault' = fault
        /\ panel' = Q /\ monitor' = N
    BY <1>2 DEF Create
  <1>4. /\ r \in PanelKinds /\ r.phase = "new" /\ r.on = o /\ r.layer = l /\ r.asks = FALSE
    <2>1. /\ r \in PanelRecords /\ r.phase = "new" /\ r.on = o /\ r.layer = l /\ r.asks = FALSE
      BY NoPanelIs DEF NoPanel, PanelKinds, PanelRecords, Phases
    <2> QED
      BY <2>1 DEF PanelKinds, Shaped
  <1> HIDE DEF r
  <1>5. Q \in PanelStates /\ Q[p] = r /\ OnlyPanel(Q, P, p)
    BY <1>1, <1>4, PutPanel
  <1> HIDE DEF Q
  <1>6. Listing(Q, N) /\ p \notin ToSet(M[o].list[l])
    <2>1. ~InAList(P[p]) /\ InAList(Q[p]) /\ Q[p].on = o /\ Q[p].layer = l
      BY <1>3, <1>4, <1>5 DEF InAList
    <2> HIDE DEF P, M
    <2> QED
      BY <1>1, <1>5, <2>1, EnlistListing
  <1>7. Relisted(N, M, o) /\ N \in MonitorStates
    <2>1. Enlisted(Enlist(M, o, p, l), M, o, p, l)
      BY <1>1, <1>6, EnlistIs
    <2> QED
      BY <2>1 DEF Enlisted, Relisted
  <1> HIDE DEF N
  <1>8. w = [panel |-> Q, monitor |-> N, seat |-> s, popup |-> U, fault |-> fault]
    BY <1>3 DEF World
  <1> HIDE DEF w
  <1>9. w \in Worlds /\ w.panel = Q /\ w.monitor = N /\ w.seat = s /\ w.popup = U
    BY <1>1, <1>5, <1>7, <1>8 DEF Worlds
  <1>10. Homes(Q, N)
    <2>1. Homes(Q, M)
      BY <1>1, <1>3, <1>4, <1>5 DEF Homes, OnlyPanel
    <2> HIDE DEF M, P
    <2> QED
      BY <1>5, <1>7, <2>1, RelistedKeeps
  <1>11. Hanging(Q, U)
    <2>1. \A q \in Popups : U[q] # NoPopup => Q[U[q].owner] = P[U[q].owner]
      BY <1>1, <1>3, <1>5 DEF Hanging, OnlyPanel
    <2> QED
      BY <1>1, <2>1 DEF Hanging
  <1>12. ASSUME NEW u \in Monitors PROVE Tidy(Q, N, u)
    <2>1. SameStrips(Q, P, u)
      <3>1. ~Reserves(P[p]) /\ ~Reserves(Q[p])
        BY <1>3, <1>4, <1>5 DEF Reserves
      <3> QED
        BY <1>5, <3>1 DEF SameStrips, Reserving, OnlyPanel
    <2>2. SameArea(N[u], M[u]) /\ Tidy(P, M, u)
      BY <1>1, <1>7 DEF Relisted, SameArea
    <2> HIDE DEF P, M
    <2> QED
      BY <1>1, <2>1, <2>2, StripsTidy
  <1>13. \A q \in Panels : Agreed(Q[q]) /\ ~Q[q].asks
    BY <1>1, <1>4, <1>5 DEF Agreed, OnlyPanel
  <1>14. Focused(Q, N, s)
    <2>1. \A u \in Monitors : s.layer[u] # Nothing => s.layer[u] \in Panels
      BY <1>1 DEF SeatStates
    <2>2. Focused(Q, M, s)
      BY <1>1, <1>3, <1>5, <2>1 DEF Focused, OnlyPanel
    <2> HIDE DEF P, M, s
    <2> QED
      BY <1>1, <1>7, <2>2, RelistedKeeps
  <1>15. Orderly(w)
    BY <1>6, <1>9, <1>10, <1>11, <1>12, <1>13, <1>14 DEF Orderly, Fitting, AllTidy, AllAgreed, AllAnswered
  <1>16. OneNew(Q)
    BY <1>5 DEF OneNew, NoneNew, OnlyPanel
  <1> QED
    BY <1>3, <1>15, <1>16 DEF PanelsSane, w

\* A panel that is listed becomes another one that is listed, or mapped.
Advances(r, q) ==
    /\ q.phase \in {"new", "asked"} /\ r.phase \in {"asked", "mapped"}
    /\ r.on = q.on /\ r.layer = q.layer

LEMMA AdvancesIs ==
    ASSUME NEW g, Orderly(g), OneNew(g.panel), NEW p \in Panels, NEW r \in PanelKinds, Advances(r, g.panel[p]),
           g.panel[p].phase = "new" \/ NoneNew(g.panel)
    PROVE  /\ Ready([g EXCEPT !.panel[p] = r], r.on) /\ Changed([g EXCEPT !.panel[p] = r], g, p, r)
           /\ r.on \in Monitors
  <1> DEFINE P == g.panel
             M == g.monitor
             w == [g EXCEPT !.panel[p] = r]
             o == r.on
  <1>1. /\ g \in Worlds /\ P \in PanelStates /\ M \in MonitorStates /\ g.seat \in SeatStates
        /\ P[p] \in PanelKinds /\ Fitting(g) /\ Focused(P, M, g.seat)
        /\ \A u \in Monitors : Tidy(P, M, u)
        /\ \A q \in Panels : ~P[q].asks
    BY DEF Orderly, Fitting, Worlds, PanelStates, AllTidy, AllAnswered
  <1>2. /\ P[p].phase # "none" /\ r.phase # "none" /\ r.on = P[p].on /\ r.layer = P[p].layer
        /\ (InAList(r) <=> InAList(P[p])) /\ (P[p].phase \in {"mapped", "bare"} => r.phase \in {"mapped", "bare"})
    BY DEF Advances, InAList
  <1>3. Changed([g EXCEPT !.panel[p] = r], g, p, r)
    BY <1>1, <1>2, ChangedIs
  <1>4. Changed(w, g, p, r)
    BY <1>3
  <1> HIDE DEF w
  <1>5. /\ Fitting(w) /\ w.panel[p] = r /\ OnlyPanel(w.panel, P, p) /\ w.monitor = M /\ w.seat = g.seat
        /\ \A u \in Monitors : u # o => Tidy(w.panel, w.monitor, u)
    BY <1>1, <1>4 DEF Changed
  <1>6. o \in Monitors
    BY <1>1, <1>2 DEF PanelKinds, Shaped
  <1>7. NoneNew(w.panel)
    BY <1>5 DEF NoneNew, OneNew, OnlyPanel, Advances
  <1>8. Focused(w.panel, w.monitor, w.seat)
    <2>1. \A u \in Monitors : g.seat.layer[u] # Nothing => g.seat.layer[u] \in Panels
      BY <1>1 DEF SeatStates
    <2>2. P[p].phase # "mapped"
      BY DEF Advances
    <2> QED
      BY ZenonT(60), <1>1, <1>5, <2>1, <2>2 DEF Focused, OnlyPanel
  <1>9. LaidAt(w.monitor, o)
    BY <1>1, <1>5, <1>6 DEF Tidy
  <1>10. \A q \in Panels : w.panel[q].asks => q \in Stacked(w.panel, o)
    <2> SUFFICES ASSUME NEW q \in Panels, w.panel[q].asks PROVE q \in Stacked(w.panel, o)
      OBVIOUS
    <2>1. q = p
      BY <1>1, <1>5 DEF OnlyPanel
    <2> QED
      BY <1>5, <2>1 DEF Stacked, InAList, Advances
  <1>11. Ready(w, o)
    BY <1>5, <1>7, <1>8, <1>9, <1>10 DEF Ready
  <1> QED
    BY <1>3, <1>6, <1>11 DEF w

LEMMA AdvancedOrderly ==
    ASSUME NEW g, Orderly(g), OneNew(g.panel), NEW p \in Panels, NEW r \in PanelKinds, Advances(r, g.panel[p]),
           g.panel[p].phase = "new" \/ NoneNew(g.panel), Agreed(r)
    PROVE  /\ Orderly(Arrange([g EXCEPT !.panel[p] = r], r.on))
           /\ NoneNew(Arrange([g EXCEPT !.panel[p] = r], r.on).panel)
  <1> DEFINE w == [g EXCEPT !.panel[p] = r]
             h == Arrange(w, r.on)
  <1>1. Ready(w, r.on) /\ Changed(w, g, p, r) /\ r.on \in Monitors
    BY AdvancesIs
  <1> HIDE DEF w
  <1>2. AllAgreed(w)
    BY <1>1 DEF Changed, OnlyPanel, AllAgreed, Orderly
  <1>3. Steady(h) /\ SameBut(h, w)
    BY <1>1, ArrangedSteady
  <1> HIDE DEF h
  <1>4. AllAgreed(h)
    <2>1. w.panel \in PanelStates /\ h.panel \in PanelStates /\ AllAlike(h.panel, w.panel)
      BY <1>1, <1>3 DEF Ready, Steady, Fitting, Worlds, SameBut
    <2> QED
      BY <1>2, <2>1, AlikeKeepsPanels DEF AllAgreed
  <1> QED
    BY <1>3, <1>4, OrderlyIsSteady DEF h, w

LEMMA FirstCommitIs ==
    ASSUME PanelsSane, NEW p \in Panels, NEW s \in LayerStates, FirstCommit(p, s)
    PROVE  PanelsSane'
  <1> DEFINE q == panel[p]
             r == [Remembers(panel[p], s) EXCEPT !.phase = "asked", !.asks = TRUE]
             g == World
             h == Arrange([g EXCEPT !.panel[p] = r], q.on)
  <1>1. Orderly(g) /\ OneNew(g.panel) /\ q.phase = "new" /\ q \in PanelKinds /\ g.panel[p] = q
    BY WorldIs DEF PanelsSane, FirstCommit, Orderly, Fitting, Worlds, PanelStates
  <1>2. Becomes(h)
    BY DEF FirstCommit
  <1>3. CommittedBy(r, q, "asked", s, s.zone, TRUE)
    <2>1. q.phase # "none" /\ TRUE \in BOOLEAN /\ "asked" \in {"asked", "mapped"}
      BY <1>1
    <2>2. r = [Remembers(q, s) EXCEPT !.phase = "asked", !.asks = TRUE]
      OBVIOUS
    <2> HIDE DEF q, r
    <2>3. CommittedBy([Remembers(q, s) EXCEPT !.phase = "asked", !.asks = TRUE], q, "asked", s, s.zone, TRUE)
      BY <1>1, <2>1, RememberedIs
    <2> QED
      BY <2>2, <2>3
  <1> HIDE DEF q, r, g
  <1>4. r \in PanelKinds /\ Advances(r, g.panel[p]) /\ Agreed(r) /\ r.on = q.on
    BY <1>1, <1>3 DEF CommittedBy, Advances, Agreed
  <1>5. Orderly(h) /\ NoneNew(h.panel)
    BY <1>1, <1>4, AdvancedOrderly
  <1> HIDE DEF h
  <1> QED
    BY <1>2, <1>5, BecomesIs

LEMMA EarlyCommitIs ==
    ASSUME PanelRaces = {}, Orderly(World), NoneNew(panel), NEW p \in Panels, NEW s \in LayerStates, EarlyCommit(p, s)
    PROVE  PanelsSane'
  <1> DEFINE q == panel[p]
             r == [Remembers(panel[p], s) EXCEPT !.asks = panel[p].asks \/ panel[p].phase = "bare"]
             g == World
             w == [g EXCEPT !.panel[p] = r]
             h == Arrange(w, q.on)
             k == IF InputsChanged(q, s) THEN h ELSE w
  <1>1. /\ Orderly(g) /\ NoneNew(g.panel) /\ OneNew(g.panel) /\ q.phase = "asked" /\ q \in PanelKinds
        /\ g.panel[p] = q /\ ~q.asks
    <2>1. q.phase = "asked"
      BY DEF EarlyCommit
    <2> QED
      BY <2>1, WorldIs DEF Orderly, Fitting, Worlds, PanelStates, NoneNew, OneNew, AllAnswered
  <1>2. Becomes(k)
    BY DEF EarlyCommit
  <1>3. CommittedBy(r, q, "asked", s, s.zone, FALSE)
    <2>1. q.phase # "none" /\ FALSE \in BOOLEAN /\ "asked" \in {"asked", "mapped"}
      BY <1>1
    <2>2. r = [Remembers(q, s) EXCEPT !.asks = FALSE]
      BY <1>1
    <2> HIDE DEF q, r
    <2>3. CommittedBy([Remembers(q, s) EXCEPT !.asks = FALSE], q, "asked", s, s.zone, FALSE)
      BY <1>1, <2>1, RememberedIs
    <2> QED
      BY <2>2, <2>3
  <1>4. r \in PanelKinds /\ Advances(r, q) /\ Agreed(r) /\ r.on = q.on /\ r.phase = "asked" /\ ~r.asks
    BY <1>1, <1>3 DEF CommittedBy, Advances, Agreed
  <1> HIDE DEF r
  <1>5. Orderly(h) /\ NoneNew(h.panel)
    <2> HIDE DEF q, g
    <2> QED
      BY <1>1, <1>4, AdvancedOrderly
  <1>6. Ready(w, r.on) /\ Changed(w, g, p, r) /\ r.on \in Monitors
    <2> HIDE DEF q, g
    <2> QED
      BY <1>1, <1>4, AdvancesIs
  <1> HIDE DEF h, w
  <1>7. /\ Fitting(w) /\ NoneNew(w.panel) /\ Focused(w.panel, w.monitor, w.seat) /\ w.monitor = g.monitor
        /\ w.panel[p] = r /\ OnlyPanel(w.panel, g.panel, p)
    BY <1>6 DEF Ready, Changed
  <1>8. AllTidy(w)
    <2> SUFFICES ASSUME NEW u \in Monitors PROVE Tidy(w.panel, w.monitor, u)
      BY DEF AllTidy
    <2> DEFINE P == g.panel
               Q == w.panel
               M == g.monitor
    <2>1. SameStrips(Q, P, u)
      <3>1. ~Reserves(P[p]) /\ ~Reserves(Q[p])
        BY <1>1, <1>4, <1>7 DEF Reserves
      <3> QED
        BY <1>7, <3>1 DEF SameStrips, Reserving, OnlyPanel
    <2>2. SameArea(M[u], M[u]) /\ Tidy(P, M, u) /\ P \in PanelStates
      BY <1>1 DEF SameArea, Orderly, AllTidy, Fitting, Worlds
    <2> HIDE DEF P, Q, M
    <2>3. Tidy(Q, M, u)
      BY <2>1, <2>2, StripsTidy
    <2> QED
      BY <1>7, <2>3 DEF Q, M
  <1>9. AllAgreed(w) /\ AllAnswered(w)
    BY <1>1, <1>4, <1>7 DEF AllAgreed, AllAnswered, Orderly, OnlyPanel
  <1>10. Orderly(w)
    BY <1>7, <1>8, <1>9 DEF Orderly
  <1>11. Orderly(k) /\ NoneNew(k.panel)
    BY <1>5, <1>7, <1>10
  <1> HIDE DEF k
  <1> QED
    BY <1>2, <1>11, BecomesIs

LEMMA MapPanelIs ==
    ASSUME PanelRaces = {}, Orderly(World), NoneNew(panel), NEW p \in Panels, NEW s \in LayerStates, MapPanel(p, s)
    PROVE  PanelsSane'
  <1> DEFINE q == panel[p]
             r == [panel[p] EXCEPT !.cur = s, !.phase = "mapped"]
             g == World
             w == [g EXCEPT !.panel[p] = r]
             k == Arrange(w, q.on)
  <1>1. /\ Orderly(g) /\ NoneNew(g.panel) /\ OneNew(g.panel) /\ q.phase = "asked" /\ q \in PanelKinds
        /\ g.panel[p] = q
    <2>1. q.phase = "asked"
      BY DEF MapPanel
    <2> QED
      BY <2>1, WorldIs DEF Orderly, Fitting, Worlds, PanelStates, NoneNew, OneNew
  <1>2. PICK c \in CursorFocus(k) : \E h \in MappedCommit(c, p, s, FALSE) : Becomes(h)
    BY DEF MapPanel
  <1>3. PICK h \in MappedCommit(c, p, s, FALSE) : Becomes(h)
    BY <1>2
  <1>4. CommittedBy(r, q, "mapped", s, q.zone, q.asks)
    <2>1. q.phase # "none" /\ q.asks \in BOOLEAN /\ "mapped" \in {"asked", "mapped"}
      BY <1>1 DEF PanelKinds, PanelRecords
    <2>2. r = [q EXCEPT !.cur = s, !.phase = "mapped"]
      OBVIOUS
    <2> HIDE DEF q, r
    <2>3. CommittedBy([q EXCEPT !.cur = s, !.phase = "mapped"], q, "mapped", s, q.zone, q.asks)
      BY <1>1, <2>1, RememberedIs
    <2> QED
      BY <2>2, <2>3
  <1>5. r \in PanelKinds /\ Advances(r, q) /\ r.on = q.on /\ r.phase = "mapped" /\ r.cur = s
    BY <1>1, <1>4 DEF CommittedBy, Advances
  <1> HIDE DEF r
  <1>6. Ready(w, r.on) /\ Changed(w, g, p, r) /\ r.on \in Monitors
    <2> HIDE DEF q, g
    <2> QED
      BY <1>1, <1>5, AdvancesIs
  <1> HIDE DEF w
  <1>7. Steady(k) /\ SameBut(k, w)
    <2>1. k = Arrange(w, r.on)
      BY <1>5
    <2> HIDE DEF k
    <2>2. Steady(Arrange(w, r.on)) /\ SameBut(Arrange(w, r.on), w)
      BY <1>6, ArrangedSteady
    <2> QED
      BY <2>1, <2>2
  <1> HIDE DEF k
  <1>8. \A x \in Panels : x # p => Agreed(k.panel[x])
    <2> SUFFICES ASSUME NEW x \in Panels, x # p PROVE Agreed(k.panel[x])
      OBVIOUS
    <2>1. Agreed(g.panel[x]) /\ w.panel[x] = g.panel[x] /\ Alike(k.panel[x], w.panel[x])
      BY <1>1, <1>6, <1>7 DEF Orderly, AllAgreed, Changed, OnlyPanel, SameBut, AllAlike
    <2> QED
      BY <2>1 DEF Agreed, Alike
  <1>9. k.panel[p].phase = "mapped" /\ k.panel[p].cur = s
    BY <1>5, <1>6, <1>7 DEF Changed, SameBut, AllAlike, Alike
  <1>10. FocusMoved(c, k)
    BY <1>2, <1>7, CursorFocusIs DEF Steady, Fitting
  <1>11. Commits(c, p, s, FALSE)
    <2>1. Steady(c)
      BY <1>7, <1>10 DEF Steady, FocusMoved, Fitting, AllTidy, AllAnswered
    <2> QED
      BY <1>8, <1>9, <1>10, <2>1 DEF Commits, FocusMoved
  <1>12. FALSE \in BOOLEAN
    OBVIOUS
  <1>13. Orderly(h) /\ NoneNew(h.panel)
    BY <1>3, <1>11, <1>12, MappedCommitIs
  <1> QED
    BY <1>3, <1>13, BecomesIs

LEMMA CommitPanelIs ==
    ASSUME PanelRaces = {}, Orderly(World), NoneNew(panel), NEW p \in Panels, NEW s \in LayerStates, CommitPanel(p, s)
    PROVE  PanelsSane'
  <1> DEFINE q == panel[p]
             same == s = q.cur
             g == World
  <1>1. /\ Orderly(g) /\ NoneNew(g.panel) /\ g.panel[p] = q /\ q.phase = "mapped"
    BY WorldIs DEF CommitPanel
  <1>2. PICK h \in MappedCommit(g, p, s, same) : Becomes(h)
    BY DEF CommitPanel
  <1>3. same \in BOOLEAN
    OBVIOUS
  <1>4. Agreed(q) /\ \A x \in Panels : Agreed(g.panel[x])
    BY <1>1 DEF Orderly, AllAgreed
  <1>5. q.zone = q.cur.zone /\ q.layer = q.cur.layer
    BY <1>1, <1>4 DEF Agreed
  <1>6. Commits(g, p, s, same)
    <2>1. Steady(g)
      BY <1>1, OrderlyIsSteady
    <2>2. same => ~InputsChanged(q, s)
      BY <1>5 DEF InputsChanged
    <2> HIDE DEF g, q, same
    <2> QED
      BY <1>1, <1>4, <1>5, <2>1, <2>2 DEF Commits
  <1> HIDE DEF g, q, same
  <1>7. Orderly(h) /\ NoneNew(h.panel)
    BY <1>2, <1>3, <1>6, MappedCommitIs
  <1> QED
    BY <1>2, <1>7, BecomesIs

LEMMA UnmapPanelIs ==
    ASSUME PanelRaces = {}, Orderly(World), NoneNew(panel), NEW p \in Panels, UnmapPanel(p)
    PROVE  PanelsSane'
  <1> DEFINE g == World
             k == Unmap(g, p)
  <1>1. Orderly(g) /\ NoneNew(g.panel) /\ g.panel[p].phase = "mapped"
    BY WorldIs DEF UnmapPanel
  <1>2. PICK h \in CursorFocus(k) : Becomes(h)
    BY DEF UnmapPanel
  <1> HIDE DEF g
  <1>3. Without(k, g, p)
    BY <1>1, UnmapIs
  <1> HIDE DEF k
  <1>4. Orderly(h) /\ h.panel = k.panel
    BY <1>2, <1>3, FocusedOrderly DEF Without
  <1>5. NoneNew(h.panel)
    BY <1>3, <1>4 DEF Without
  <1> QED
    BY <1>2, <1>4, <1>5, BecomesIs

LEMMA DestroyPanelIs ==
    ASSUME PanelRaces = {}, Orderly(World), NoneNew(panel), NEW p \in Panels, DestroyPanel(p)
    PROVE  PanelsSane'
  <1> DEFINE g == World
  <1>1. Orderly(g) /\ NoneNew(g.panel) /\ g.panel[p].phase # "none"
    BY WorldIs DEF DestroyPanel
  <1>2. PICK h \in Destroyed(g, p) : Becomes(h)
    BY DEF DestroyPanel
  <1> HIDE DEF g
  <1>3. Without(h, g, p)
    BY <1>1, <1>2, DestroyedIs
  <1>4. Orderly(h) /\ NoneNew(h.panel)
    BY <1>3 DEF Without
  <1> QED
    BY <1>2, <1>4, BecomesIs

LEMMA QuitIs ==
    ASSUME PanelRaces = {}, Orderly(World), NoneNew(panel), Quit
    PROVE  PanelsSane'
  <1> DEFINE p == seat.layer[seat.on]
  <1>1. seat \in SeatStates
    BY WorldIs DEF Orderly, Fitting, Worlds
  <1>2. p # Nothing /\ DestroyPanel(p)
    BY DEF Quit
  <1>3. p \in Panels
    BY <1>1, <1>2 DEF SeatStates
  <1> HIDE DEF p
  <1> QED
    BY <1>2, <1>3, DestroyPanelIs

LEMMA PointerMovesIs ==
    ASSUME PanelRaces = {}, Orderly(World), NoneNew(panel), PointerMoves
    PROVE  PanelsSane'
  <1> DEFINE g == World
  <1>1. Orderly(g) /\ NoneNew(g.panel)
    BY WorldIs
  <1>2. PICK h \in CursorFocus(g) : Becomes(h)
    BY DEF PointerMoves
  <1> HIDE DEF g
  <1>3. Orderly(h) /\ h.panel = g.panel
    BY <1>1, <1>2, FocusedOrderly
  <1> QED
    BY <1>1, <1>2, <1>3, BecomesIs

\* Only popups have come or gone.
LEMMA PopupsIs ==
    ASSUME PanelsSane, NEW U \in PopupStates, Hanging(panel, U), popup' = U, UNCHANGED <<panel, monitor, seat, fault>>
    PROVE  PanelsSane'
  <1> DEFINE g == World
             h == World'
  <1>1. g \in Worlds /\ Orderly(g) /\ g = [panel |-> panel, monitor |-> monitor, seat |-> seat, popup |-> popup, fault |-> fault]
    BY DEF PanelsSane, Orderly, Fitting, World
  <1>2. h = [panel |-> panel, monitor |-> monitor, seat |-> seat, popup |-> U, fault |-> fault]
    BY DEF World
  <1> HIDE DEF g, h
  <1>3. /\ h \in Worlds /\ h.panel = panel /\ h.monitor = monitor /\ h.seat = seat /\ h.popup = U
        /\ g.panel = panel /\ g.monitor = monitor /\ g.seat = seat
    BY <1>1, <1>2 DEF Worlds
  <1>4. Orderly(h)
    BY <1>1, <1>3 DEF Orderly, Fitting, AllTidy, AllAgreed, AllAnswered
  <1> QED
    BY <1>4 DEF PanelsSane, h

LEMMA OpenPopupIs ==
    ASSUME PanelsSane, NEW q \in Popups, NEW r \in Panels \cup Popups, OpenPopup(q, r)
    PROVE  PanelsSane'
  <1> DEFINE U == popup
             n == [parent |-> r, owner |-> Owner(r)]
             W == [U EXCEPT ![q] = n]
  <1>1. U \in PopupStates /\ Hanging(panel, U)
    BY WorldIs DEF PanelsSane, Orderly, Fitting, Worlds
  <1>2. /\ U[q] = NoPopup /\ popup' = W /\ UNCHANGED <<panel, monitor, seat, fault>>
        /\ IF r \in Panels THEN panel[r].phase = "mapped" ELSE U[r] # NoPopup
    BY DEF OpenPopup
  <1>3. Nothing \notin Panels /\ Panels \cap Popups = {}
    BY PanelAssumption
  <1>4. Owner(r) \in Panels /\ panel[Owner(r)].phase \in {"mapped", "bare"}
    <2>1. CASE r \in Panels
      BY <1>2, <2>1 DEF Owner
    <2>2. CASE r \notin Panels
      BY <1>1, <1>2, <2>2 DEF Owner, Hanging
    <2> QED
      BY <2>1, <2>2
  <1>5. n \in PopupKinds /\ n.parent = r /\ n.owner = Owner(r)
    BY <1>4 DEF PopupKinds
  <1> HIDE DEF n
  <1>6. W \in PopupStates /\ W[q] = n /\ \A x \in Popups : x # q => W[x] = U[x]
    BY <1>1, <1>5 DEF PopupStates
  <1> HIDE DEF W
  <1>7. Hanging(panel, W)
    <2> SUFFICES ASSUME NEW x \in Popups, W[x] # NoPopup
                 PROVE  /\ W[x].parent \in Panels \cup Popups /\ W[x].owner \in Panels
                        /\ panel[W[x].owner].phase \in {"mapped", "bare"}
                        /\ IF W[x].parent \in Panels THEN W[x].parent = W[x].owner
                           ELSE W[W[x].parent].owner = W[x].owner
      BY DEF Hanging
    <2>1. CASE x = q
      <3>1. r \notin Panels => r # q /\ W[r] = U[r] /\ Owner(r) = U[r].owner
        BY <1>2, <1>6 DEF Owner
      <3>2. r \in Panels => Owner(r) = r
        BY DEF Owner
      <3> QED
        BY <1>4, <1>5, <1>6, <2>1, <3>1, <3>2
    <2>2. CASE x # q
      <3>1. /\ W[x] = U[x] /\ U[x].parent \in Panels \cup Popups /\ U[x].owner \in Panels
            /\ panel[U[x].owner].phase \in {"mapped", "bare"}
            /\ IF U[x].parent \in Panels THEN U[x].parent = U[x].owner
               ELSE U[U[x].parent].owner = U[x].owner
        BY <1>1, <1>6, <2>2 DEF Hanging
      <3>2. U[x].parent \notin Panels => U[x].parent # q
        <4>1. U[q].owner = Nothing
          BY <1>2 DEF NoPopup
        <4> QED
          BY <1>3, <3>1, <4>1
      <3>3. U[x].parent \notin Panels => W[U[x].parent] = U[U[x].parent]
        BY <1>6, <3>1, <3>2
      <3> QED
        BY <3>1, <3>3
    <2> QED
      BY <2>1, <2>2
  <1> QED
    BY <1>2, <1>6, <1>7, PopupsIs

LEMMA ClosePopupIs ==
    ASSUME PanelsSane, NEW q \in Popups, ClosePopup(q)
    PROVE  PanelsSane'
  <1> DEFINE U == popup
             W == [U EXCEPT ![q] = NoPopup]
  <1>1. U \in PopupStates /\ Hanging(panel, U)
    BY WorldIs DEF PanelsSane, Orderly, Fitting, Worlds
  <1>2. /\ popup' = W /\ UNCHANGED <<panel, monitor, seat, fault>> /\ \A x \in Popups : U[x].parent # q
    BY DEF ClosePopup
  <1>3. NoPopup \in PopupKinds
    BY DEF NoPopup, PopupKinds
  <1>4. W \in PopupStates /\ W[q] = NoPopup /\ \A x \in Popups : x # q => W[x] = U[x]
    BY <1>1, <1>3 DEF PopupStates
  <1> HIDE DEF W
  <1>5. Hanging(panel, W)
    BY <1>1, <1>2, <1>4 DEF Hanging
  <1> QED
    BY <1>2, <1>4, <1>5, PopupsIs

LEMMA ReflowIs ==
    ASSUME PanelsSane, NEW o \in Monitors, Reflow(o)
    PROVE  PanelsSane'
  <1> DEFINE g == World
             h == World'
             M == monitor
             m == M[o]
             n == [M[o] EXCEPT !.pending = FALSE, !.laid = M[o].usable]
             N == [M EXCEPT ![o] = n]
  <1>1. g \in Worlds /\ Orderly(g) /\ OneNew(panel)
        /\ g = [panel |-> panel, monitor |-> M, seat |-> seat, popup |-> popup, fault |-> fault]
    BY DEF PanelsSane, Orderly, Fitting, World
  <1>2. M \in MonitorStates /\ m \in MonitorKinds
    BY <1>1 DEF Worlds, MonitorStates
  <1>3. monitor' = N /\ panel' = panel /\ seat' = seat /\ popup' = popup /\ fault' = fault
    BY DEF Reflow
  <1>4. /\ n \in MonitorKinds /\ n.plugged = m.plugged /\ n.on = m.on /\ n.list = m.list
        /\ n.height = m.height /\ n.usable = m.usable /\ n.laid = m.usable
    BY <1>2 DEF MonitorKinds
  <1> HIDE DEF n
  <1>5. N \in MonitorStates /\ N[o] = n /\ \A u \in Monitors : u # o => N[u] = M[u]
    BY <1>2, <1>4 DEF MonitorStates
  <1> HIDE DEF N
  <1>6. h = [panel |-> panel, monitor |-> N, seat |-> seat, popup |-> popup, fault |-> fault]
    BY <1>3 DEF World
  <1> HIDE DEF g, h
  <1>7. /\ h \in Worlds /\ h.panel = panel /\ h.monitor = N /\ h.seat = seat /\ h.popup = popup
        /\ g.panel = panel /\ g.monitor = M /\ g.seat = seat /\ g.popup = popup
        /\ panel \in PanelStates /\ seat \in SeatStates
    BY <1>1, <1>5, <1>6 DEF Worlds
  <1>8. SameMonitors(N, M)
    BY <1>4, <1>5 DEF SameMonitors
  <1>9. /\ Listing(panel, M) /\ Homes(panel, M) /\ Focused(panel, M, seat) /\ Hanging(panel, popup)
        /\ \A u \in Monitors : Tidy(panel, M, u)
        /\ AllAgreed(g) /\ AllAnswered(g)
    BY <1>1, <1>7 DEF Orderly, Fitting, AllTidy
  <1> HIDE DEF M
  <1>10. Listing(panel, N) /\ Homes(panel, N) /\ Focused(panel, N, seat)
    BY <1>7, <1>8, <1>9, SameMonitorsKeep
  <1>11. \A u \in Monitors : Tidy(panel, N, u)
    BY <1>4, <1>5, <1>9 DEF Tidy, AreaAt, LaidAt, m
  <1>12. Orderly(h)
    BY <1>7, <1>9, <1>10, <1>11 DEF Orderly, Fitting, AllTidy, AllAgreed, AllAnswered
  <1> QED
    BY <1>1, <1>3, <1>12 DEF PanelsSane, h

-----------------------------------------------------------------------------
(* The panels of an output are closed one after the other *)

LEMMA FiniNone ==
    ASSUME NEW g, Orderly(g), NEW p \in Panels, g.panel[p].phase = "none"
    PROVE  Fini(g, p) = g /\ g.panel[p] = NoPanel
  <1> DEFINE P == g.panel
             M == g.monitor
             U == g.popup
             W == [q \in Popups |-> IF U[q].owner = p THEN NoPopup ELSE U[q]]
             Q == [P EXCEPT ![p] = NoPanel]
             N == Unlist(M, P[p].on, p)
  <1>1. /\ g \in Worlds /\ P \in PanelStates /\ M \in MonitorStates /\ U \in PopupStates
        /\ P[p] \in PanelKinds /\ Hanging(P, U)
    BY DEF Orderly, Fitting, Worlds, PanelStates
  <1>2. P[p] = NoPanel
    BY <1>1 DEF PanelKinds, Shaped
  <1>3. Q = P
    BY <1>1, <1>2 DEF PanelStates
  <1>4. N = M
    <2>1. P[p].on = Nothing /\ Nothing \notin Monitors
      BY <1>2, PanelAssumption DEF NoPanel
    <2> QED
      BY <1>1, <2>1 DEF Unlist, MonitorStates
  <1>5. W = U
    <2> SUFFICES ASSUME NEW q \in Popups PROVE U[q].owner = p => U[q] = NoPopup
      BY <1>1 DEF PopupStates
    <2> QED
      BY <1>1 DEF Hanging
  <1>6. Fini(g, p) = [g EXCEPT !.panel = Q, !.monitor = N, !.popup = W]
    BY DEF Fini
  <1> HIDE DEF Q, N, W
  <1>7. Fini(g, p) = g
    BY <1>1, <1>3, <1>4, <1>5, <1>6 DEF Worlds
  <1> QED
    BY <1>2, <1>7

LEMMA DestroyedAny ==
    ASSUME PanelRaces = {}, NEW g, Orderly(g), NoneNew(g.panel), NEW p \in Panels, NEW h \in Destroyed(g, p)
    PROVE  Without(h, g, p) /\ h.panel[p] = NoPanel
  <1>1. CASE g.panel[p].phase # "none"
    BY <1>1, DestroyedIs
  <1>2. CASE g.panel[p].phase = "none"
    <2>1. h = Fini(g, p)
      BY <1>2 DEF Destroyed
    <2>2. h = g /\ g.panel[p] = NoPanel
      BY <1>2, <2>1, FiniNone
    <2> QED
      BY <2>2 DEF Without, Alike, Lasting
  <1> QED
    BY <1>1, <1>2

Fine == {g \in Worlds : Orderly(g) /\ NoneNew(g.panel)}

LEMMA ClosedFine ==
    ASSUME PanelRaces = {}, NEW G \in SUBSET Fine, NEW p \in Panels
    PROVE  Closed(G, p) \in SUBSET Fine
  <1> SUFFICES ASSUME NEW h \in Closed(G, p) PROVE h \in Fine
    OBVIOUS
  <1>1. PICK g \in G : h \in Destroyed(g, p)
    BY DEF Closed
  <1>2. Orderly(g) /\ NoneNew(g.panel)
    BY DEF Fine
  <1>3. Without(h, g, p)
    BY <1>1, <1>2, DestroyedAny
  <1> QED
    BY <1>3 DEF Without, Fine, Orderly, Fitting

OnePanelGone(c, d, e, ls) ==
    /\ c[0] = d /\ c[Len(ls)] = e
    /\ \A i \in 1 .. Len(ls) : c[i] = Closed(c[i - 1], ls[i])

LEMMA ClosingSteps ==
    ASSUME PanelRaces = {}, NEW d \in SUBSET Fine, NEW ls \in Seq(Panels)
    PROVE  \E c \in [0 .. Len(ls) -> SUBSET Fine] : OnePanelGone(c, d, ClosedAll(d, ls), ls)
  <1> DEFINE A == SUBSET Fine
             D == DOMAIN ls
             F(f) == [s \in SUBSET D |-> IF s = {} THEN d ELSE Closed(f[s \ {Max(s)}], ls[Max(s)])]
             step == [p \in A \X D |-> Closed(p[1], ls[p[2]])]
             pick == [s \in SUBSET D |-> Max(s)]
             n == Len(ls)
  <1>1. n \in Nat /\ D = 1 .. n /\ \A i \in D : ls[i] \in Panels
    OBVIOUS
  <1>2. step \in [A \X D -> A]
    <2> SUFFICES ASSUME NEW p \in A \X D PROVE Closed(p[1], ls[p[2]]) \in A
      OBVIOUS
    <2>1. p[1] \in SUBSET Fine /\ ls[p[2]] \in Panels
      BY <1>1
    <2> QED
      BY <2>1, ClosedFine
  <1>3. \A s \in SUBSET D : s # {} => pick[s] \in s
    BY <1>1, MaxUpTo
  <1>4. IsFiniteSet(D)
    BY <1>1, FS_Interval
  <1>5. \A e \in A, i \in D : step[<<e, i>>] = Closed(e, ls[i])
    OBVIOUS
  <1>6. \A s \in SUBSET D : pick[s] = Max(s)
    OBVIOUS
  <1>0. d \in A
    OBVIOUS
  <1> HIDE DEF D, step, pick, A
  <1>7. PICK g \in [SUBSET D -> A] : Iterated(g, D, pick, d, step, SUBSET D)
    BY <1>0, <1>2, <1>3, <1>4, Iterates
  <1>8. g = F(g)
    <2>1. ASSUME NEW s \in SUBSET D
          PROVE  g[s] = IF s = {} THEN d ELSE Closed(g[s \ {Max(s)}], ls[Max(s)])
      <3>1. CASE s = {}
        BY <1>7, <3>1 DEF Iterated
      <3>2. CASE s # {}
        <4>1. Max(s) \in D /\ pick[s] = Max(s) /\ s \ {Max(s)} \in SUBSET D
          BY <1>3, <1>6, <3>2
        <4>2. g[s] = step[<<g[s \ {Max(s)}], Max(s)>>]
          BY <1>7, <3>2, <4>1 DEF Iterated
        <4>3. g[s \ {Max(s)}] \in A
          BY <1>7, <4>1
        <4> QED
          BY <1>5, <3>2, <4>1, <4>2, <4>3
      <3> QED
        BY <3>1, <3>2
    <2> QED
      BY <1>7, <2>1
  <1> DEFINE h == CHOOSE f : f = F(f)
  <1>9. h = F(h)
    BY <1>8
  <1>10. ClosedAll(d, ls) = h[D]
    BY DEF ClosedAll, FoldLeft, MapThenFoldSet, D
  <1> HIDE DEF h
  <1>11. h[{}] = d
    BY <1>9
  <1>12. ASSUME NEW s \in SUBSET D, s # {}, h[s \ {Max(s)}] \in A
         PROVE  h[s] = step[<<h[s \ {Max(s)}], Max(s)>>]
    <2>1. h[s] = Closed(h[s \ {Max(s)}], ls[Max(s)])
      BY <1>9, <1>12
    <2>2. Max(s) \in D
      BY <1>3, <1>6, <1>12
    <2> QED
      BY <1>5, <1>12, <2>1, <2>2
  <1> HIDE DEF F, n
  <1>16. n \in Nat /\ step \in [A \X (1 .. n) -> A]
    BY <1>1, <1>2
  <1>17. Folding(h, n, A, d, step)
    BY <1>1, <1>11, <1>12 DEF Folding
  <1>13. \E c \in [0 .. n -> A] : Chain(c, n, d, h[1 .. n], step)
    BY <1>0, <1>16, <1>17, FoldsUp
  <1>14. PICK c \in [0 .. n -> A] :
            /\ c[0] = d /\ c[n] = h[1 .. n]
            /\ \A i \in 1 .. n : c[i] = step[<<c[i - 1], i>>]
    BY <1>13 DEF Chain
  <1>15. ASSUME NEW i \in 1 .. n PROVE c[i] = Closed(c[i - 1], ls[i])
    <2>1. i - 1 \in 0 .. n /\ i \in D
      BY <1>1
    <2> QED
      BY <1>5, <1>14, <2>1
  <1> QED
    BY <1>1, <1>10, <1>14, <1>15 DEF n, A, OnePanelGone


\* The panels of Z are gone, the others as they were.
Cleared(h, g, Z) ==
    /\ Orderly(h) /\ NoneNew(h.panel) /\ Lasting(h.monitor, g.monitor)
    /\ \A q \in Panels : IF q \in Z THEN h.panel[q] = NoPanel ELSE Alike(h.panel[q], g.panel[q])

LEMMA ClearedStep ==
    ASSUME PanelRaces = {}, NEW g, NEW k, NEW Z, Cleared(k, g, Z), NEW p \in Panels, NEW h \in Destroyed(k, p)
    PROVE  Cleared(h, g, Z \cup {p})
  <1>1. Without(h, k, p) /\ h.panel[p] = NoPanel
    BY DestroyedAny DEF Cleared
  <1>2. Lasting(h.monitor, g.monitor)
    BY <1>1 DEF Cleared, Without, Lasting
  <1>3. h.panel \in PanelStates
    BY <1>1 DEF Without, Orderly, Fitting, Worlds
  <1>4. ASSUME NEW q \in Panels
        PROVE  IF q \in Z \cup {p} THEN h.panel[q] = NoPanel ELSE Alike(h.panel[q], g.panel[q])
    <2>1. CASE q = p
      BY <1>1, <2>1
    <2>2. CASE q # p /\ q \in Z
      <3>1. k.panel[q] = NoPanel /\ Alike(h.panel[q], k.panel[q])
        BY <1>1, <2>2 DEF Cleared, Without
      <3>2. h.panel[q] \in PanelKinds /\ h.panel[q].phase = "none"
        BY <1>3, <3>1 DEF Alike, NoPanel, PanelStates
      <3> QED
        BY <2>2, <3>2 DEF PanelKinds, Shaped
    <2>3. CASE q # p /\ q \notin Z
      <3>1. Alike(k.panel[q], g.panel[q]) /\ Alike(h.panel[q], k.panel[q])
        BY <1>1, <2>3 DEF Cleared, Without
      <3> QED
        BY <2>3, <3>1 DEF Alike
    <2> QED
      BY <2>1, <2>2, <2>3
  <1> QED
    BY <1>1, <1>2, <1>4 DEF Cleared, Without

LEMMA ClosedAllIs ==
    ASSUME PanelRaces = {}, NEW g, Orderly(g), NoneNew(g.panel), NEW ls \in Seq(Panels),
           NEW h \in ClosedAll({g}, ls)
    PROVE  Cleared(h, g, ToSet(ls))
  <1> DEFINE n == Len(ls)
             Z(i) == {ls[j] : j \in 1 .. i}
  <1>1. {g} \in SUBSET Fine
    BY DEF Fine, Orderly, Fitting
  <1>2. PICK c \in [0 .. n -> SUBSET Fine] : OnePanelGone(c, {g}, ClosedAll({g}, ls), ls)
    BY <1>1, ClosingSteps
  <1>3. /\ c[0] = {g} /\ c[n] = ClosedAll({g}, ls)
        /\ \A i \in 1 .. n : c[i] = Closed(c[i - 1], ls[i])
    BY <1>2 DEF OnePanelGone
  <1>4. n \in Nat /\ \A i \in 1 .. n : ls[i] \in Panels
    OBVIOUS
  <1> DEFINE D == {i \in 0 .. n : \A k \in c[i] : Cleared(k, g, Z(i))}
  <1>5. 0 \in D
    <2>1. Z(0) = {}
      OBVIOUS
    <2>2. Cleared(g, g, {})
      BY DEF Cleared, Lasting, Alike
    <2> HIDE DEF Z, n
    <2>3. 0 \in 0 .. n
      BY <1>4
    <2>4. \A k \in c[0] : Cleared(k, g, Z(0))
      BY <1>3, <2>1, <2>2
    <2> QED
      BY <2>3, <2>4
  <1>6. ASSUME NEW i \in 1 .. n, i - 1 \in D PROVE i \in D
    <2>1. Z(i) = Z(i - 1) \cup {ls[i]}
      <3>1. \A j \in 1 .. i : j \in 1 .. i - 1 \/ j = i
        BY <1>4
      <3>2. \A j \in 1 .. i - 1 : j \in 1 .. i
        BY <1>4
      <3> QED
        BY <1>4, <3>1, <3>2
    <2> HIDE DEF Z
    <2>2. ASSUME NEW k \in c[i] PROVE Cleared(k, g, Z(i))
      <3>1. PICK m \in c[i - 1] : k \in Destroyed(m, ls[i])
        BY <1>3 DEF Closed
      <3>2. Cleared(m, g, Z(i - 1))
        BY <1>6
      <3> DEFINE p == ls[i]
                 Y == Z(i - 1)
      <3>3. p \in Panels /\ k \in Destroyed(m, p) /\ Cleared(m, g, Y)
        BY <1>4, <3>1, <3>2
      <3> HIDE DEF p, Y
      <3>4. Cleared(k, g, Y \cup {p})
        BY <3>3, ClearedStep
      <3> QED
        BY <2>1, <3>4 DEF p, Y
    <2>3. i \in 0 .. n
      BY <1>4
    <2> QED
      BY <2>2, <2>3
  <1> HIDE DEF D
  <1>7. \A i \in 0 .. n : i \in D
    BY <1>4, <1>5, <1>6, Climbs
  <1>8. n \in 0 .. n
    BY <1>4
  <1>9. Cleared(h, g, Z(n))
    <2>1. n \in D
      BY <1>7, <1>8
    <2> HIDE DEF Z, n
    <2>2. h \in c[n]
      BY <1>3
    <2> QED
      BY <2>1, <2>2 DEF D
  <1>10. Z(n) = ToSet(ls)
    BY DEF ToSet
  <1> QED
    BY <1>9, <1>10

-----------------------------------------------------------------------------
(* Monitors come, go and change *)

\* A monitor is another one, and the focus is elsewhere.
Replaced(w, g, o, n, s) ==
    /\ w \in Worlds /\ w.panel = g.panel /\ w.popup = g.popup /\ w.seat = s
    /\ w.monitor[o] = n /\ \A u \in Monitors : u # o => w.monitor[u] = g.monitor[u]

LEMMA ReplacedIs ==
    ASSUME NEW g \in Worlds, NEW o \in Monitors, NEW n \in MonitorKinds, NEW s \in SeatStates
    PROVE  /\ Replaced([g EXCEPT !.monitor[o] = n, !.seat = s], g, o, n, s)
           /\ Replaced([g EXCEPT !.monitor[o] = n], g, o, n, g.seat)
  <1> DEFINE M == g.monitor
             N == [M EXCEPT ![o] = n]
             w == [g EXCEPT !.monitor[o] = n, !.seat = s]
             v == [g EXCEPT !.monitor[o] = n]
  <1>1. N \in MonitorStates /\ N[o] = n /\ \A u \in Monitors : u # o => N[u] = M[u]
    BY DEF Worlds, MonitorStates
  <1>2. w = [g EXCEPT !.monitor = N, !.seat = s] /\ v = [g EXCEPT !.monitor = N]
    OBVIOUS
  <1> HIDE DEF N, w, v
  <1>3. w \in Worlds /\ w.panel = g.panel /\ w.popup = g.popup /\ w.seat = s /\ w.monitor = N
    BY <1>1, <1>2 DEF Worlds
  <1>4. v \in Worlds /\ v.panel = g.panel /\ v.popup = g.popup /\ v.seat = g.seat /\ v.monitor = N
    BY <1>1, <1>2 DEF Worlds
  <1> QED
    BY <1>1, <1>3, <1>4 DEF Replaced, w, v

\* What the other monitor has to be: it lists the panels on it, and if it is off its area is right.
Accepts(n, P, o) ==
    /\ \A l \in 1 .. Layers : ToSet(n.list[l]) = Layered(P, o, l)
    /\ n.on => n.plugged
    /\ \A p \in Panels : P[p].phase # "none" /\ P[p].on = o => n.plugged

LEMMA RefocusedIs ==
    ASSUME NEW P, NEW M, NEW N, NEW s, Focused(P, M, s), N[s.on].on
    PROVE  Focused(P, N, s)
  BY DEF Focused

\* The layout changes after a monitor did.
LEMMA ReplacedLaidOut ==
    ASSUME NEW g, Orderly(g), NoneNew(g.panel), NEW o \in Monitors, NEW n, NEW s, NEW w,
           Replaced(w, g, o, n, s), Accepts(n, g.panel, o), Focused(g.panel, w.monitor, s),
           n.on \/ Tidy(g.panel, w.monitor, o)
    PROVE  LaidOut(LayoutChanged(w), w)
  <1> DEFINE P == g.panel
             M == g.monitor
             N == w.monitor
  <1>1. /\ Listing(P, M) /\ Homes(P, M) /\ Hanging(P, g.popup)
        /\ \A u \in Monitors : Tidy(P, M, u)
    BY DEF Orderly, Fitting, AllTidy
  <1>2. /\ w \in Worlds /\ w.panel = P /\ w.popup = g.popup /\ w.seat = s
        /\ N[o] = n /\ \A u \in Monitors : u # o => N[u] = M[u]
    BY DEF Replaced
  <1>3. P \in PanelStates
    BY DEF Orderly, Fitting, Worlds
  <1>4. Listing(P, N)
    BY <1>1, <1>2 DEF Listing, Accepts
  <1>5. Homes(P, N)
    <2>1. \A p \in Panels : P[p].phase # "none" => P[p].on \in Monitors
      BY <1>3 DEF PanelStates, PanelKinds, Shaped
    <2> QED
      BY <1>1, <1>2, <2>1 DEF Homes, Accepts
  <1>6. Loose(w)
    BY <1>1, <1>2, <1>4, <1>5 DEF Loose, Fitting, Orderly, AllAgreed, AllAnswered
  <1>7. ASSUME NEW u \in Monitors, ~N[u].on PROVE Tidy(w.panel, N, u)
    <2>1. CASE u = o
      BY <1>2, <1>7, <2>1
    <2>2. CASE u # o
      BY <1>1, <1>2, <2>2 DEF Tidy, AreaAt, LaidAt
    <2> QED
      BY <2>1, <2>2
  <1> QED
    BY <1>6, <1>7, LayoutIs

LEMMA LaidOutSane ==
    ASSUME NEW w, LaidOut(LayoutChanged(w), w), Becomes(LayoutChanged(w))
    PROVE  PanelsSane'
  <1> DEFINE h == LayoutChanged(w)
  <1>1. Orderly(h) /\ NoneNew(h.panel) /\ Becomes(h)
    BY DEF LaidOut
  <1> HIDE DEF h
  <1> QED
    BY <1>1, BecomesIs

\* An output that comes into the layout with no panels has its area anew.
LEMMA ComesSane ==
    ASSUME NEW w, w \in Worlds, LaidOut(LayoutChanged(w), w), NEW o \in Monitors, w.monitor[o].on,
           Reserving(w.panel, o) = {}, Becomes(ResetArea(LayoutChanged(w), o))
    PROVE  PanelsSane'
  <1> DEFINE k == LayoutChanged(w)
             h == ResetArea(k, o)
  <1>1. Orderly(k) /\ NoneNew(k.panel) /\ AllAlike(k.panel, w.panel) /\ k.monitor[o].pending
    BY DEF LaidOut
  <1>2. Becomes(h)
    OBVIOUS
  <1> HIDE DEF k
  <1>3. Reserving(k.panel, o) = {}
    <2>1. w.panel \in PanelStates /\ k.panel \in PanelStates
      BY <1>1 DEF Worlds, Orderly, Fitting
    <2> QED
      BY <1>1, <2>1, AlikeSets
  <1>4. Orderly(h) /\ NoneNew(h.panel)
    BY <1>1, <1>3, ResetOrderly
  <1> HIDE DEF h
  <1> QED
    BY <1>2, <1>4, BecomesIs

LEMMA ResizeMonitorIs ==
    ASSUME Orderly(World), NoneNew(panel), NEW o \in Monitors, NEW h \in Heights, ResizeMonitor(o, h)
    PROVE  PanelsSane'
  <1> DEFINE g == World
             M == monitor
             n == [M[o] EXCEPT !.height = h]
             w == [g EXCEPT !.monitor[o].height = h]
  <1>1. /\ Orderly(g) /\ NoneNew(g.panel) /\ g.monitor = M /\ g.panel = panel /\ g.seat = seat
        /\ g \in Worlds /\ M[o] \in MonitorKinds /\ M[o].on /\ seat \in SeatStates
        /\ Listing(panel, M) /\ Homes(panel, M) /\ Focused(panel, M, seat)
    BY WorldIs DEF ResizeMonitor, Orderly, Fitting, Worlds, MonitorStates
  <1>2. h \in Nat
    BY SpaceAssumption
  <1>3. n \in MonitorKinds /\ n.plugged = M[o].plugged /\ n.on = TRUE /\ n.list = M[o].list
    BY <1>1, <1>2 DEF MonitorKinds
  <1>4. Becomes(LayoutChanged(w))
    BY DEF ResizeMonitor
  <1>5. w = [g EXCEPT !.monitor[o] = n]
    BY <1>1
  <1> HIDE DEF g, w, n, M
  <1>6. Replaced([g EXCEPT !.monitor[o] = n], g, o, n, g.seat)
    BY <1>1, <1>3, ReplacedIs
  <1>7. Replaced(w, g, o, n, seat)
    BY <1>1, <1>5, <1>6
  <1>8. Accepts(n, panel, o)
    BY <1>1, <1>3 DEF Accepts, Listing, Homes
  <1>9. Focused(panel, w.monitor, seat)
    <2>1. w.monitor[seat.on].on
      BY <1>1, <1>3, <1>7 DEF Replaced, Focused, SeatStates
    <2> DEFINE N == w.monitor
    <2>2. N[seat.on].on
      BY <2>1
    <2> HIDE DEF N
    <2>3. Focused(panel, N, seat)
      BY <1>1, <2>2, RefocusedIs
    <2> QED
      BY <2>3 DEF N
  <1>10. LaidOut(LayoutChanged(w), w)
    BY <1>1, <1>3, <1>7, <1>8, <1>9, ReplacedLaidOut
  <1> QED
    BY <1>4, <1>10, LaidOutSane

LEMMA NoMonitorIs ==
    /\ NoMonitor \in MonitorKinds
    /\ \A l \in 1 .. Layers : ToSet(NoMonitor.list[l]) = {}
    /\ NoMonitor.usable = Base(0) /\ NoMonitor.laid = Base(0) /\ NoMonitor.height = 0
    /\ NoMonitor.plugged = FALSE /\ NoMonitor.on = FALSE
  <1> DEFINE ls == [l \in 1 .. Layers |-> <<>>]
  <1>1. ls \in ListStates /\ \A l \in 1 .. Layers : ls[l] = <<>>
    <2>1. <<>> \in Once(Panels)
      BY DEF Once, IsInjective
    <2> QED
      BY <2>1 DEF ListStates
  <1>2. ToSet(<<>>) = {}
    BY DEF ToSet
  <1>3. Base(0) \in Areas /\ 0 \in Nat
    BY BaseType
  <1>4. NoMonitor = [plugged |-> FALSE, on |-> FALSE, height |-> 0, usable |-> Base(0), pending |-> FALSE,
                     laid |-> Base(0), list |-> ls]
    BY DEF NoMonitor
  <1> HIDE DEF ls
  <1>5. NoMonitor \in MonitorKinds /\ NoMonitor.list = ls
    BY <1>1, <1>3, <1>4 DEF MonitorKinds
  <1> QED
    BY <1>1, <1>2, <1>4, <1>5

LEMMA PlugMonitorIs ==
    ASSUME Orderly(World), NoneNew(panel), NEW o \in Monitors, NEW h \in Heights, PlugMonitor(o, h)
    PROVE  PanelsSane'
  <1> DEFINE g == World
             M == monitor
             n == [NoMonitor EXCEPT !.plugged = TRUE, !.on = TRUE, !.height = h]
             w == [g EXCEPT !.monitor[o] = n]
  <1>1. /\ Orderly(g) /\ NoneNew(g.panel) /\ g.monitor = M /\ g.panel = panel /\ g.seat = seat
        /\ g \in Worlds /\ ~M[o].plugged /\ seat \in SeatStates /\ panel \in PanelStates
        /\ Homes(panel, M) /\ Focused(panel, M, seat)
    BY WorldIs DEF PlugMonitor, Orderly, Fitting, Worlds
  <1>2. h \in Nat
    BY SpaceAssumption
  <1>3. n \in MonitorKinds /\ n.plugged = TRUE /\ n.on = TRUE /\ n.list = NoMonitor.list
    BY <1>2, NoMonitorIs DEF MonitorKinds
  <1>4. Becomes(ResetArea(LayoutChanged(w), o))
    BY DEF PlugMonitor
  <1> HIDE DEF g, n, M
  <1>5. Replaced([g EXCEPT !.monitor[o] = n], g, o, n, g.seat)
    BY <1>1, <1>3, ReplacedIs
  <1>6. Replaced(w, g, o, n, seat)
    BY <1>1, <1>5
  <1> HIDE DEF w
  <1>7. \A p \in Panels : panel[p].phase = "none" \/ panel[p].on # o
    BY <1>1 DEF Homes
  <1>8. Reserving(panel, o) = {} /\ \A l : Layered(panel, o, l) = {}
    BY <1>7 DEF Reserving, Layered, Reserves, InAList
  <1>9. Accepts(n, panel, o)
    BY <1>3, <1>8, NoMonitorIs DEF Accepts
  <1>10. Focused(panel, w.monitor, seat)
    <2>1. w.monitor[seat.on].on
      BY <1>1, <1>3, <1>6 DEF Replaced, Focused, SeatStates
    <2> DEFINE N == w.monitor
    <2>2. N[seat.on].on
      BY <2>1
    <2> HIDE DEF N
    <2>3. Focused(panel, N, seat)
      BY <1>1, <2>2, RefocusedIs
    <2> QED
      BY <2>3 DEF N
  <1>11. LaidOut(LayoutChanged(w), w)
    BY <1>1, <1>3, <1>6, <1>9, <1>10, ReplacedLaidOut
  <1>12. w \in Worlds /\ w.monitor[o].on /\ w.panel = panel
    BY <1>1, <1>3, <1>6 DEF Replaced
  <1> QED
    BY <1>4, <1>8, <1>11, <1>12, ComesSane

LEMMA SwitchOffMonitorIs ==
    ASSUME PanelRaces = {}, Orderly(World), NoneNew(panel), NEW o \in Monitors, NEW into \in Monitors,
           SwitchOffMonitor(o, into)
    PROVE  PanelsSane'
  <1> DEFINE g == World
             M == monitor
             n == [M[o] EXCEPT !.on = FALSE]
             t == Evacuated(seat, into)
             w == [g EXCEPT !.monitor[o].on = FALSE, !.seat = t]
  <1>1. /\ Orderly(g) /\ NoneNew(g.panel) /\ g.monitor = M /\ g.panel = panel /\ g.seat = seat
        /\ g \in Worlds /\ M[o] \in MonitorKinds /\ seat \in SeatStates /\ panel \in PanelStates
        /\ Listing(panel, M) /\ Homes(panel, M) /\ Focused(panel, M, seat) /\ Tidy(panel, M, o)
    BY WorldIs DEF Orderly, Fitting, Worlds, MonitorStates, AllTidy
  <1>2. /\ into # o /\ M[into].on /\ (into = seat.on \/ seat.layer[seat.on] = Nothing)
        /\ Becomes(LayoutChanged(w))
    BY DEF SwitchOffMonitor, MayLeave
  <1>3. /\ n \in MonitorKinds /\ n.plugged = M[o].plugged /\ n.on = FALSE /\ n.list = M[o].list
        /\ n.usable = M[o].usable /\ n.height = M[o].height /\ n.laid = M[o].laid
        /\ n.pending = M[o].pending
    BY <1>1 DEF MonitorKinds
  <1>4. w = [g EXCEPT !.monitor[o] = n, !.seat = t]
    BY <1>1
  <1>5. t \in SeatStates /\ Focused(panel, M, t) /\ t.on = into
    <2>1. FALSE \in BOOLEAN
      OBVIOUS
    <2> HIDE DEF M
    <2>2. OtherFocus(FocusView(seat, into, FALSE), panel, M, into)
      BY <1>1, <1>2, <2>1, FocusViewIs
    <2> QED
      BY <2>2 DEF OtherFocus, Evacuated
  <1> HIDE DEF g, w, n, M, t
  <1>6. Replaced([g EXCEPT !.monitor[o] = n, !.seat = t], g, o, n, t)
    BY <1>1, <1>3, <1>5, ReplacedIs
  <1>7. Replaced(w, g, o, n, t)
    BY <1>4, <1>6
  <1> DEFINE N == w.monitor
  <1>8. N[o] = n /\ \A u \in Monitors : u # o => N[u] = M[u]
    BY <1>1, <1>7 DEF Replaced
  <1> HIDE DEF N
  <1>9. Accepts(n, panel, o)
    BY <1>1, <1>3 DEF Accepts, Listing, Homes
  <1>10. Focused(panel, N, t)
    <2>1. N[t.on].on
      BY <1>2, <1>5, <1>8
    <2> QED
      BY <1>5, <2>1, RefocusedIs
  <1>11. Tidy(panel, N, o)
    BY <1>1, <1>3, <1>8 DEF Tidy, AreaAt, LaidAt
  <1>12. LaidOut(LayoutChanged(w), w)
    BY <1>1, <1>7, <1>9, <1>10, <1>11, ReplacedLaidOut DEF N
  <1> QED
    BY <1>2, <1>12, LaidOutSane

LEMMA SwitchOnMonitorIs ==
    ASSUME PanelRaces = {}, Orderly(World), NoneNew(panel), NEW o \in Monitors, SwitchOnMonitor(o)
    PROVE  PanelsSane'
  <1> DEFINE g == World
             M == monitor
             n == [M[o] EXCEPT !.on = TRUE]
             w == [g EXCEPT !.monitor[o].on = TRUE]
  <1>1. /\ Orderly(g) /\ NoneNew(g.panel) /\ g.monitor = M /\ g.panel = panel /\ g.seat = seat
        /\ g \in Worlds /\ M \in MonitorStates /\ M[o] \in MonitorKinds /\ seat \in SeatStates
        /\ panel \in PanelStates
        /\ Listing(panel, M) /\ Homes(panel, M) /\ Focused(panel, M, seat)
    BY WorldIs DEF Orderly, Fitting, Worlds, MonitorStates
  <1>2. M[o].plugged /\ Stack(M, o) = <<>> /\ Becomes(ResetArea(LayoutChanged(w), o))
    BY DEF SwitchOnMonitor
  <1>3. n \in MonitorKinds /\ n.plugged = TRUE /\ n.on = TRUE /\ n.list = M[o].list
    BY <1>1, <1>2 DEF MonitorKinds
  <1>4. w = [g EXCEPT !.monitor[o] = n]
    BY <1>1
  <1> HIDE DEF g, w, n, M
  <1>5. Replaced([g EXCEPT !.monitor[o] = n], g, o, n, g.seat)
    BY <1>1, <1>3, ReplacedIs
  <1>6. Replaced(w, g, o, n, seat)
    BY <1>1, <1>4, <1>5
  <1>7. Accepts(n, panel, o)
    BY <1>1, <1>3 DEF Accepts, Listing
  <1>8. Focused(panel, w.monitor, seat)
    <2>1. w.monitor[seat.on].on
      BY <1>1, <1>3, <1>6 DEF Replaced, Focused, SeatStates
    <2> DEFINE N == w.monitor
    <2>2. N[seat.on].on
      BY <2>1
    <2> HIDE DEF N
    <2>3. Focused(panel, N, seat)
      BY <1>1, <2>2, RefocusedIs
    <2> QED
      BY <2>3 DEF N
  <1>9. LaidOut(LayoutChanged(w), w)
    BY <1>1, <1>3, <1>6, <1>7, <1>8, ReplacedLaidOut
  <1>10. Reserving(panel, o) = {}
    <2>1. ToSet(Stack(M, o)) = Stacked(panel, o)
      BY <1>1, StackIs
    <2>2. Stacked(panel, o) = {}
      BY <1>2, <2>1 DEF ToSet
    <2> QED
      BY <2>2 DEF Stacked, Reserving, Reserves, InAList
  <1>11. w \in Worlds /\ w.monitor[o].on /\ w.panel = panel
    BY <1>1, <1>3, <1>6 DEF Replaced
  <1> QED
    BY <1>2, <1>9, <1>10, <1>11, ComesSane

LEMMA UnplugMonitorIs ==
    ASSUME PanelRaces = {}, Orderly(World), NoneNew(panel), NEW o \in Monitors, NEW into \in Monitors,
           UnplugMonitor(o, into)
    PROVE  PanelsSane'
  <1> DEFINE S == Stack(monitor, o)
             ls == Reverse(S)
  <1>1. /\ into # o /\ monitor[into].on
        /\ \A p \in Panels : panel[p].phase = "bare" => panel[p].on # o
    BY DEF UnplugMonitor
  <1>2. PICK g \in ClosedAll({World}, ls) :
            /\ MayLeave(g.seat, into)
            /\ Becomes(LayoutChanged([g EXCEPT !.monitor[o] = NoMonitor, !.seat = Evacuated(g.seat, into)]))
    BY DEF UnplugMonitor
  <1>3. ls \in Seq(Panels) /\ ToSet(ls) = Stacked(panel, o)
    <2>1. /\ panel \in PanelStates /\ monitor \in MonitorStates /\ Listing(panel, monitor)
      BY WorldIs DEF Orderly, Fitting, Worlds
    <2>2. S \in Once(Panels) /\ ToSet(S) = Stacked(panel, o)
      BY <2>1, StackIs
    <2> HIDE DEF S
    <2>3. Reverse(S) \in Once(Panels) /\ ToSet(Reverse(S)) = ToSet(S)
      BY <2>2, ReversedOnce
    <2> QED
      BY <2>2, <2>3 DEF Once
  <1> HIDE DEF ls
  <1>4. Cleared(g, World, ToSet(ls))
    <2> DEFINE b == World
    <2>1. Orderly(b) /\ NoneNew(b.panel) /\ g \in ClosedAll({b}, ls)
      BY <1>2, WorldIs
    <2> HIDE DEF b
    <2>2. Cleared(g, b, ToSet(ls))
      BY <1>3, <2>1, ClosedAllIs
    <2> QED
      BY <2>2 DEF b
  <1>5. /\ Orderly(g) /\ NoneNew(g.panel) /\ Lasting(g.monitor, monitor)
        /\ \A q \in Panels : IF q \in Stacked(panel, o) THEN g.panel[q] = NoPanel
                             ELSE Alike(g.panel[q], panel[q])
    BY <1>3, <1>4, WorldIs DEF Cleared
  <1> DEFINE P == g.panel
             M == g.monitor
             s == g.seat
             n == NoMonitor
             t == Evacuated(s, into)
             w == [g EXCEPT !.monitor[o] = n, !.seat = t]
  <1>6. /\ g \in Worlds /\ s \in SeatStates /\ P \in PanelStates /\ Focused(P, M, s)
    BY <1>5 DEF Orderly, Fitting, Worlds
  <1>7. ASSUME NEW p \in Panels, P[p].phase # "none" PROVE P[p].on # o
    <2>1. p \notin Stacked(panel, o)
      BY <1>5, <1>7 DEF NoPanel
    <2>2. Alike(P[p], panel[p]) /\ panel[p].phase \in Phases
      <3>1. panel[p] \in PanelKinds
        BY WorldIs DEF Orderly, Fitting, Worlds, PanelStates
      <3> QED
        BY <1>5, <2>1, <3>1 DEF PanelKinds, PanelRecords
    <2>3. panel[p].phase # "none" /\ panel[p].on = P[p].on
      BY <1>7, <2>2 DEF Alike
    <2> QED
      BY <1>1, <2>1, <2>2, <2>3 DEF Stacked, InAList, Phases
  <1>8. Reserving(P, o) = {} /\ \A l : Layered(P, o, l) = {}
    BY <1>7 DEF Reserving, Layered, Reserves, InAList
  <1>9. M[into].on /\ Becomes(LayoutChanged(w)) /\ (into = s.on \/ s.layer[s.on] = Nothing)
    BY <1>1, <1>2, <1>5 DEF Lasting, MayLeave
  <1>10. t \in SeatStates /\ Focused(P, M, t) /\ t.on = into
    <2>1. FALSE \in BOOLEAN
      OBVIOUS
    <2>2. /\ s \in SeatStates /\ Focused(P, M, s) /\ M[into].on /\ (into = s.on \/ s.layer[s.on] = Nothing)
      BY <1>6, <1>9
    <2>3. t = FocusView(s, into, FALSE)
      BY DEF Evacuated
    <2> HIDE DEF P, M, s, t
    <2>4. OtherFocus(FocusView(s, into, FALSE), P, M, into)
      BY <2>1, <2>2, FocusViewIs
    <2> QED
      BY <2>3, <2>4 DEF OtherFocus
  <1>11. n \in MonitorKinds /\ n.plugged = FALSE /\ n.on = FALSE /\ \A l \in 1 .. Layers : ToSet(n.list[l]) = {}
    BY NoMonitorIs
  <1> HIDE DEF t, n
  <1>12. Replaced(w, g, o, n, t)
    BY <1>6, <1>10, <1>11, ReplacedIs
  <1> HIDE DEF w
  <1> DEFINE N == w.monitor
  <1>13. N[o] = n /\ \A u \in Monitors : u # o => N[u] = M[u]
    BY <1>12 DEF Replaced
  <1> HIDE DEF N
  <1>14. Accepts(n, P, o)
    BY <1>7, <1>8, <1>11 DEF Accepts
  <1>15. Focused(P, N, t)
    <2>1. N[t.on].on
      BY <1>1, <1>9, <1>10, <1>13
    <2> HIDE DEF P, M
    <2> QED
      BY <1>10, <2>1, RefocusedIs
  <1>16. Tidy(P, N, o)
    <2>1. n.usable = Base(0) /\ n.laid = Base(0) /\ n.height = 0
      BY NoMonitorIs DEF n
    <2>2. Total(P, Reserving(P, o)) = 0
      BY <1>8, TotalIs, FS_EmptySet
    <2>3. BarHeight + 0 = BarHeight
      BY SpaceAssumption
    <2> DEFINE x == Total(P, Reserving(P, o))
    <2>4. x = 0
      BY <2>2
    <2> HIDE DEF x
    <2>5. AreaAt(P, N, o)
      BY <1>13, <2>1, <2>3, <2>4 DEF AreaAt, LeftBy, Base, x
    <2>6. RowsAt(P, o)
      BY <1>8 DEF RowsAt
    <2> QED
      BY <1>13, <2>1, <2>5, <2>6 DEF Tidy, LaidAt
  <1>17. LaidOut(LayoutChanged(w), w)
    <2>1. Focused(P, w.monitor, t) /\ Tidy(P, w.monitor, o)
      BY <1>15, <1>16 DEF N
    <2> QED
      BY <1>5, <1>12, <1>14, <2>1, ReplacedLaidOut
  <1> QED
    BY <1>9, <1>17, LaidOutSane

-----------------------------------------------------------------------------
(* The invariant *)

LEMMA PanelsInitSane ==
    ASSUME PanelsInit
    PROVE  PanelsSane
  <1>1. PICK h \in Heights :
            monitor = [o \in Monitors |->
                    [NoMonitor EXCEPT !.plugged = TRUE, !.on = TRUE, !.height = h,
                                     !.usable = Base(h), !.laid = Base(h)]]
    BY DEF PanelsInit
  <1> DEFINE n == [NoMonitor EXCEPT !.plugged = TRUE, !.on = TRUE, !.height = h,
                                    !.usable = Base(h), !.laid = Base(h)]
  <1>2. h \in Nat /\ Base(h) \in Areas
    <2>1. h \in Nat
      BY SpaceAssumption
    <2> QED
      BY <2>1, BaseType
  <1>3. /\ n \in MonitorKinds /\ n.plugged = TRUE /\ n.on = TRUE /\ n.list = NoMonitor.list
        /\ n.height = h /\ n.usable = Base(h) /\ n.laid = Base(h)
    BY <1>2, NoMonitorIs DEF MonitorKinds
  <1> HIDE DEF n
  <1>4. monitor \in MonitorStates /\ \A o \in Monitors : monitor[o] = n
    BY <1>1, <1>3 DEF MonitorStates, n
  <1>5. panel \in PanelStates /\ \A p \in Panels : panel[p] = NoPanel
    BY NoPanelIs DEF PanelsInit, PanelStates
  <1>6. /\ seat \in SeatStates /\ seat.view = FALSE /\ seat.keyboard = Nothing
        /\ \A o \in Monitors : seat.layer[o] = Nothing
    BY DEF PanelsInit, SeatStates
  <1>7. popup \in PopupStates /\ \A q \in Popups : popup[q] = NoPopup
    <2>1. NoPopup \in PopupKinds
      BY DEF NoPopup, PopupKinds
    <2> QED
      BY <2>1 DEF PanelsInit, PopupStates
  <1>8. World \in Worlds
    BY <1>4, <1>5, <1>6, <1>7 DEF World, Worlds, PanelsInit
  <1>9. NoPanel.phase = "none" /\ NoPanel.asks = FALSE
    BY DEF NoPanel
  <1>10. Listing(panel, monitor)
    <2> SUFFICES ASSUME NEW o \in Monitors, NEW l \in 1 .. Layers
                 PROVE  ToSet(monitor[o].list[l]) = Layered(panel, o, l)
      BY DEF Listing
    <2>1. Layered(panel, o, l) = {}
      BY <1>5, <1>9 DEF Layered, InAList
    <2>2. monitor[o].list = NoMonitor.list
      BY <1>3, <1>4
    <2> QED
      BY <2>1, <2>2, NoMonitorIs
  <1>11. Homes(panel, monitor) /\ Hanging(panel, popup)
    BY <1>3, <1>4, <1>5, <1>7, <1>9 DEF Homes, Hanging
  <1>12. ASSUME NEW o \in Monitors PROVE Tidy(panel, monitor, o)
    <2>1. Reserving(panel, o) = {}
      BY <1>5, <1>9 DEF Reserving, Reserves
    <2>2. Total(panel, Reserving(panel, o)) = 0
      BY <2>1, TotalIs, FS_EmptySet
    <2>3. BarHeight + 0 = BarHeight
      BY SpaceAssumption
    <2> DEFINE x == Total(panel, Reserving(panel, o))
    <2>4. x = 0
      BY <2>2
    <2> HIDE DEF x
    <2>5. AreaAt(panel, monitor, o)
      BY <1>3, <1>4, <2>3, <2>4 DEF AreaAt, LeftBy, Base, x
    <2>6. RowsAt(panel, o)
      BY <2>1 DEF RowsAt
    <2> QED
      BY <1>3, <1>4, <2>5, <2>6 DEF Tidy, LaidAt
  <1>13. Focused(panel, monitor, seat)
    <2>1. seat.on \in Monitors
      BY <1>6 DEF SeatStates
    <2> QED
      BY <1>3, <1>4, <1>6, <2>1 DEF Focused
  <1>14. \A p \in Panels : Agreed(panel[p]) /\ ~panel[p].asks /\ panel[p].phase # "new"
    BY <1>5, <1>9 DEF Agreed
  <1>15. Orderly(World)
    BY <1>8, <1>10, <1>11, <1>12, <1>13, <1>14, WorldIs DEF Orderly, Fitting, AllTidy, AllAgreed, AllAnswered
  <1> QED
    BY <1>14, <1>15 DEF PanelsSane, OneNew

LEMMA PanelsNextSane ==
    ASSUME PanelRaces = {}, PanelsSane, [PanelsNext]_panelVars
    PROVE  PanelsSane'
  <1>1. CASE UNCHANGED panelVars
    BY <1>1 DEF panelVars, PanelsSane, World, OneNew
  <1>2. CASE \E p \in Panels, s \in LayerStates : FirstCommit(p, s)
    BY <1>2, FirstCommitIs
  <1>3. ASSUME Calm
        PROVE  Orderly(World) /\ NoneNew(panel)
    BY <1>3 DEF Calm, PanelsSane, NoneNew
  <1>4. CASE /\ Calm
             /\ \/ \E p \in Panels, o \in Monitors : Create(p, o)
                \/ \E p \in Panels, s \in LayerStates : EarlyCommit(p, s) \/ MapPanel(p, s) \/ CommitPanel(p, s)
                \/ \E p \in Panels : UnmapPanel(p) \/ DestroyPanel(p)
                \/ PointerMoves \/ Quit
    BY <1>3, <1>4, CreateIs, EarlyCommitIs, MapPanelIs, CommitPanelIs, UnmapPanelIs, DestroyPanelIs,
       PointerMovesIs, QuitIs
  <1>5. CASE /\ Calm
             /\ \/ \E q \in Popups : ClosePopup(q) \/ \E r \in Panels \cup Popups : OpenPopup(q, r)
                \/ \E o \in Monitors :
                      \/ Reflow(o) \/ SwitchOnMonitor(o)
                      \/ \E h \in Heights : ResizeMonitor(o, h) \/ PlugMonitor(o, h)
                      \/ \E into \in Monitors : SwitchOffMonitor(o, into) \/ UnplugMonitor(o, into)
    BY <1>3, <1>5, ClosePopupIs, OpenPopupIs, ReflowIs, SwitchOnMonitorIs, ResizeMonitorIs, PlugMonitorIs,
       SwitchOffMonitorIs, UnplugMonitorIs
  <1> QED
    BY <1>1, <1>2, <1>4, <1>5 DEF PanelsNext

LEMMA OnceCounted ==
    ASSUME NEW S, NEW ls \in Once(S), NEW p
    PROVE  Cardinality({i \in DOMAIN ls : ls[i] = p}) = IF p \in ToSet(ls) THEN 1 ELSE 0
  <1> DEFINE I == {i \in DOMAIN ls : ls[i] = p}
  <1>1. CASE p \in ToSet(ls)
    <2>1. PICK i \in DOMAIN ls : ls[i] = p
      BY <1>1 DEF ToSet
    <2>2. I = {i}
      BY <2>1 DEF Once, IsInjective
    <2> HIDE DEF I
    <2>3. Cardinality(I) = 1
      BY <2>2, FS_Singleton
    <2> QED
      BY <1>1, <2>3 DEF I
  <1>2. CASE p \notin ToSet(ls)
    <2>1. I = {}
      BY <1>2 DEF ToSet, Once
    <2> HIDE DEF I
    <2>2. Cardinality(I) = 0
      BY <2>1, FS_EmptySet
    <2> QED
      BY <1>2, <2>2 DEF I
  <1> QED
    BY <1>1, <1>2

LEMMA SaneIsSound ==
    ASSUME PanelsSane
    PROVE  PanelsAreSound
  <1>1. /\ panel \in PanelStates /\ monitor \in MonitorStates /\ seat \in SeatStates /\ popup \in PopupStates
        /\ fault = {}
        /\ Listing(panel, monitor) /\ Homes(panel, monitor) /\ Hanging(panel, popup)
        /\ Focused(panel, monitor, seat)
        /\ \A o \in Monitors : Tidy(panel, monitor, o)
        /\ \A p \in Panels : Agreed(panel[p]) /\ ~panel[p].asks
    BY WorldIs DEF PanelsSane, Orderly, Fitting, Worlds, AllTidy, AllAgreed, AllAnswered
  <1>2. PanelsTypeOK
    <2>1. panel \in [Panels -> PanelRecords]
      BY <1>1 DEF PanelStates, PanelKinds
    <2> QED
      BY <1>1, <2>1 DEF PanelsTypeOK, PanelRecords, Phases, SeatStates, PopupStates, PopupKinds
  <1>3. \A o : Takers(o) = Reserving(panel, o)
    BY DEF Takers, Reserving, Reserves
  <1>4. AreaIsCurrent
    <2> SUFFICES ASSUME NEW o \in Monitors
                 PROVE  /\ monitor[o].usable = LeftBy(MapThenSumSet(LAMBDA p : panel[p].cur.zone, Takers(o)),
                                                      monitor[o].height)
                        /\ monitor[o].laid = monitor[o].usable \/ monitor[o].pending
      BY DEF AreaIsCurrent, LeftBy
    <2>1. Total(panel, Takers(o)) = MapThenSumSet(LAMBDA p : panel[p].cur.zone, Takers(o))
      BY DEF Total
    <2>2. AreaAt(panel, monitor, o) /\ LaidAt(monitor, o)
      BY <1>1 DEF Tidy
    <2> DEFINE x == Total(panel, Takers(o))
    <2>3. x = Total(panel, Reserving(panel, o))
      BY <1>3
    <2> HIDE DEF x
    <2>4. monitor[o].usable = LeftBy(x, monitor[o].height)
      BY <2>2, <2>3 DEF AreaAt
    <2> QED
      BY <2>1, <2>2, <2>4 DEF LaidAt, x
  <1>5. StripsAreApart
    BY <1>1, <1>3 DEF StripsAreApart, Tidy, RowsAt
  <1>6. ClientsAreAnswered
    BY <1>1 DEF ClientsAreAnswered
  <1>7. PanelsHaveAPlace
    <2>1. ASSUME NEW p \in Panels, NEW o \in Monitors, NEW l \in 1 .. Layers
          PROVE  Cardinality({i \in DOMAIN monitor[o].list[l] : monitor[o].list[l][i] = p}) =
                     IF panel[p].phase \in {"new", "asked", "mapped"} /\ panel[p].on = o /\ panel[p].layer = l
                     THEN 1 ELSE 0
      <3> DEFINE ls == monitor[o].list[l]
      <3>1. ls \in Once(Panels)
        BY <1>1 DEF MonitorStates, MonitorKinds, ListStates
      <3>2. p \in ToSet(ls) <=> /\ panel[p].phase \in {"new", "asked", "mapped"} /\ panel[p].on = o
                               /\ panel[p].layer = l
        BY <1>1 DEF Listing, Layered, InAList
      <3> HIDE DEF ls
      <3>3. Cardinality({i \in DOMAIN ls : ls[i] = p}) = IF p \in ToSet(ls) THEN 1 ELSE 0
        BY <3>1, OnceCounted
      <3> QED
        BY <3>2, <3>3 DEF ls
    <2>2. ASSUME NEW p \in Panels
          PROVE  /\ panel[p].phase # "none" => monitor[panel[p].on].plugged
                 /\ panel[p].phase = "mapped" => panel[p].layer = panel[p].cur.layer
      BY <1>1 DEF Homes, Agreed
    <2> QED
      BY <2>1, <2>2 DEF PanelsHaveAPlace
  <1>8. KeyboardIsFocused
    BY <1>1 DEF KeyboardIsFocused, Focused
  <1>9. PopupsHaveAPanel
    <2>1. Nothing \notin Panels
      BY PanelAssumption
    <2> QED
      BY <1>1, <2>1 DEF PopupsHaveAPanel, Hanging
  <1> QED
    BY <1>2, <1>4, <1>5, <1>6, <1>7, <1>8, <1>9 DEF PanelsAreSound

\* What a panel, its client and its monitor may count on, whatever comes and goes: the area that
\* arrange_layers() leaves to the views, the strips, the answers to the clients, the lists, the
\* keyboard and the popups (layer_shell.c).
THEOREM PanelsSound ==
    ASSUME PanelRaces = {}
    PROVE  PanelsSpec => []PanelsAreSound
  <1>1. PanelsInit => PanelsSane
    BY PanelsInitSane
  <1>2. PanelsSane /\ [PanelsNext]_panelVars => PanelsSane'
    BY PanelsNextSane
  <1>3. PanelsSane => PanelsAreSound
    BY SaneIsSound
  <1> QED
    BY <1>1, <1>2, <1>3, PTL DEF PanelsSpec
=============================================================================
