---------------------------- MODULE SessionProofs ----------------------------
(***************************************************************************)
(* What holds of a connection's two sessions, for any number of phones:    *)
(* its text session (TextInput) and its TV Remote session (HoldSession).   *)
(*                                                                         *)
(* KeyboardAgrees is inductive as it stands, since the phone and the       *)
(* service edit equal texts equally.  FreshField needs to know where a     *)
(* text may come from: a usable session is focused only when an imeStart   *)
(* was heard after the last imeEnd that was, so what a focused session has *)
(* was typed for later fields or while none was open (FocusInv).           *)
(*                                                                         *)
(* The three invariants of HoldSession need each other (a repeat that is   *)
(* accepted finds no other of its hold in the lane, since the task that    *)
(* sends it is the only running one and is not waiting) and what is true   *)
(* of the lane's numbers, of owners, of the relay and of the repeat tasks  *)
(* (HoldInv).                                                              *)
(***************************************************************************)
EXTENDS TextInput, HoldSession, TLAPS

-----------------------------------------------------------------------------
(* The keyboard.                                                            *)

Symbols == Nat \cup {Placeholder}

TextTypeInv ==
    /\ opened \in Nat /\ ended \in Nat /\ open \in BOOLEAN
    /\ connected \in [Phones -> BOOLEAN] /\ uuid \in [Phones -> BOOLEAN]
    /\ listed \in [Phones -> BOOLEAN] /\ focus \in [Phones -> BOOLEAN]
    /\ shown \in [Phones -> BOOLEAN] /\ capped \in [Phones -> BOOLEAN]
    /\ text \in [Phones -> Seq(Symbols)] /\ seen \in [Phones -> Seq(Symbols)]

FocusInv ==
    /\ ended <= opened
    /\ open => ended < opened
    /\ \A p \in Phones : Active(p) /\ focus[p] => ended < opened

TextInv == TextTypeInv /\ FocusInv /\ FreshField /\ KeyboardAgrees

-----------------------------------------------------------------------------
(* Texts.                                                                   *)

\* An edited text is made of what the old one was made of and of the open field (handle__tic).
LEMMA EditedText ==
    ASSUME NEW S, NEW old \in Seq(S), Field \in S,
           NEW assert, assert = NoAssert \/ assert \in Nat,
           NEW count \in Nat, NEW inserted \in BOOLEAN
    PROVE  Edited(old, assert, count, inserted) \in Seq(S)
<1>1. PICK base : base = IF assert = NoAssert THEN old ELSE [i \in 1..assert |-> Field]
  OBVIOUS
<1>2. base \in Seq(S)
  <2>1. CASE assert = NoAssert
    BY <1>1, <2>1
  <2>2. CASE assert # NoAssert
    BY <1>1, <2>2
  <2> QED
    BY <2>1, <2>2
<1>3. PICK n : n = IF count > Len(base) THEN 0 ELSE Len(base) - count
  OBVIOUS
<1>4. n \in Nat /\ n <= Len(base)
  BY <1>2, <1>3
<1>5. PICK kept : kept = SubSeq(base, 1, n)
  OBVIOUS
<1>6. kept \in Seq(S)
  BY <1>2, <1>4, <1>5
<1>7. Edited(old, assert, count, inserted) = IF inserted THEN Append(kept, Field) ELSE kept
  BY <1>1, <1>3, <1>5 DEF Edited
<1> QED
  BY <1>6, <1>7

\* Cutting a text off at its limit adds nothing to it.
LEMMA ClampedText == ASSUME NEW S, NEW s \in Seq(S) PROVE Clamped(s) \in Seq(S)
<1>1. MaxText \in Nat
  BY TextInputAssumption
<1>2. CASE Len(s) > MaxText
  BY <1>1, <1>2 DEF Clamped
<1>3. CASE ~(Len(s) > MaxText)
  BY <1>3 DEF Clamped
<1> QED
  BY <1>2, <1>3

\* The field of a character is a number.
LEMMA FieldIsNat == TextTypeInv => Field \in Nat
  BY DEF TextTypeInv, Field

-----------------------------------------------------------------------------
(* The steps.                                                               *)

\* Nobody is connected.
LEMMA InitIInv == TextInit => TextInv
<1> SUFFICES ASSUME TextInit PROVE TextInv
  OBVIOUS
<1>1. <<Placeholder>> \in Seq(Symbols) /\ <<>> \in Seq(Symbols)
  BY DEF Symbols
<1>2. TextTypeInv
  BY <1>1 DEF TextInit, TextTypeInv
<1>3. \A p \in Phones : ~Active(p)
  BY DEF TextInit, Active
<1> QED
  BY <1>2, <1>3 DEF TextInv, TextInit, FocusInv, FreshField, KeyboardAgrees

\* What a change of focus does, phone by phone (the rti_focus_state setter).
LEMMA FocusSet ==
    ASSUME TextTypeInv, NEW value \in BOOLEAN, NEW Broken, UNCHANGED <<connected, uuid>>,
           text' \in [Phones -> Seq(Symbols)], SetFocus({p \in Phones : Active(p)}, value, Broken)
    PROVE  /\ focus' \in [Phones -> BOOLEAN] /\ listed' \in [Phones -> BOOLEAN]
           /\ shown' \in [Phones -> BOOLEAN] /\ capped' \in [Phones -> BOOLEAN]
           /\ seen' \in [Phones -> Seq(Symbols)]
           /\ \A p \in Phones : Active(p)' =>
                 /\ Active(p) /\ focus'[p] = value
                 /\ focus[p] = value => shown'[p] = shown[p] /\ seen'[p] = seen[p]
                                         /\ capped'[p] = capped[p]
                 /\ focus[p] # value => shown'[p] = value /\ (value => seen'[p] = text'[p])
<1> DEFINE F == {p \in Phones : Active(p)}
           changed == {p \in F : focus[p] # value}
           pushed == {p \in changed : listed[p] /\ connected[p]} \ Broken
<1>1. /\ focus' = [p \in Phones |-> IF p \in F THEN value ELSE focus[p]]
      /\ listed' = [p \in Phones |-> listed[p] /\ p \notin changed \cap Broken]
      /\ shown' = [p \in Phones |-> IF p \in pushed THEN value ELSE shown[p]]
      /\ seen' = [p \in Phones |-> IF p \notin pushed THEN seen[p]
                                   ELSE IF value THEN text'[p] ELSE <<>>]
      /\ capped' = [p \in Phones |-> capped[p] /\ p \notin pushed]
  BY DEF SetFocus
<1>2. <<>> \in Seq(Symbols)
  OBVIOUS
<1>3. /\ focus' \in [Phones -> BOOLEAN] /\ listed' \in [Phones -> BOOLEAN]
      /\ shown' \in [Phones -> BOOLEAN] /\ capped' \in [Phones -> BOOLEAN]
  BY <1>1 DEF TextTypeInv
<1>4. seen' \in [Phones -> Seq(Symbols)]
  BY <1>1, <1>2 DEF TextTypeInv
<1>5. ASSUME NEW p \in Phones, Active(p)'
      PROVE  /\ Active(p) /\ focus'[p] = value
             /\ focus[p] = value => shown'[p] = shown[p] /\ seen'[p] = seen[p]
                                     /\ capped'[p] = capped[p]
             /\ focus[p] # value => shown'[p] = value /\ (value => seen'[p] = text'[p])
  <2>1. listed'[p] /\ listed[p] /\ connected[p] /\ uuid[p] /\ Active(p) /\ p \in F
    BY <1>1, <1>5 DEF Active
  <2>2. focus[p] # value => p \in pushed
    BY <1>1, <2>1
  <2>3. focus[p] = value => p \notin pushed
    OBVIOUS
  <2>4. capped[p] \in BOOLEAN
    BY DEF TextTypeInv
  <2> HIDE DEF F, changed, pushed
  <2> QED
    BY <1>1, <2>1, <2>2, <2>3, <2>4
<1> QED
  BY <1>3, <1>4, <1>5

\* A field opens (make_ime_focus_handler, imeStart).
LEMMA FieldOpensIInv == TextInv /\ FieldOpens => TextInv'
<1> SUFFICES ASSUME TextInv, FieldOpens PROVE TextInv'
  OBVIOUS
<1> USE DEF TextInv
<1>1. ~open /\ open' = TRUE /\ opened' = opened + 1 /\ UNCHANGED <<ended, connected, uuid>>
  BY DEF FieldOpens
<1>grows. Recent \subseteq Recent'
  BY <1>1 DEF Recent, TextTypeInv, FocusInv
<1>2. CASE ~up
  <2>1. UNCHANGED <<text, focus, listed, shown, seen, capped>>
    BY <1>2 DEF FieldOpens, Misses, phoneVars
  <2>2. \A p \in Phones : Active(p)' <=> Active(p)
    BY <1>1, <2>1 DEF Active
  <2>3. TextTypeInv' /\ FocusInv' /\ KeyboardAgrees'
    BY <1>1, <2>1, <2>2 DEF TextTypeInv, FocusInv, KeyboardAgrees
  <2>4. FreshField'
    BY <1>grows, <2>1, <2>2 DEF FreshField
  <2> QED
    BY <2>3, <2>4
<1>3. CASE up
  <2>1. PICK Broken \in SUBSET {p \in Phones : Active(p)} : HearsStart(Broken)
    BY <1>3 DEF FieldOpens
  <2>2. /\ text' = [p \in Phones |-> IF Active(p) /\ ~focus[p] THEN <<>> ELSE text[p]]
        /\ SetFocus({p \in Phones : Active(p)}, TRUE, Broken)
    BY <1>3, <2>1 DEF FieldOpens, HearsStart
  <2>3. text' \in [Phones -> Seq(Symbols)]
    <3>1. <<>> \in Seq(Symbols)
      OBVIOUS
    <3> QED
      BY <2>2, <3>1 DEF TextTypeInv
  <2>4. /\ focus' \in [Phones -> BOOLEAN] /\ listed' \in [Phones -> BOOLEAN]
        /\ shown' \in [Phones -> BOOLEAN] /\ capped' \in [Phones -> BOOLEAN]
        /\ seen' \in [Phones -> Seq(Symbols)]
        /\ \A p \in Phones : Active(p)' =>
              /\ Active(p) /\ focus'[p] = TRUE
              /\ focus[p] = TRUE => shown'[p] = shown[p] /\ seen'[p] = seen[p]
                                     /\ capped'[p] = capped[p]
              /\ focus[p] # TRUE => shown'[p] = TRUE /\ (TRUE => seen'[p] = text'[p])
    BY <1>1, <2>2, <2>3, FocusSet
  <2>5. TextTypeInv' /\ FocusInv'
    BY <1>1, <2>3, <2>4 DEF TextTypeInv, FocusInv
  <2>6. FreshField'
    <3> SUFFICES ASSUME NEW p \in Phones, Active(p)'
                 PROVE  \A i \in DOMAIN text'[p] : text'[p][i] \in Recent'
      BY DEF FreshField
    <3>1. Active(p)
      BY <2>4
    <3>2. CASE focus[p]
      <4>1. text'[p] = text[p]
        BY <2>2, <3>2
      <4> QED
        BY <1>grows, <3>1, <3>2, <4>1 DEF FreshField
    <3>3. CASE ~focus[p]
      BY <2>2, <3>1, <3>3
    <3> QED
      BY <3>2, <3>3
  <2>7. KeyboardAgrees'
    <3> SUFFICES ASSUME NEW p \in Phones, Active(p)'
                 PROVE  /\ shown'[p] <=> focus'[p]
                        /\ shown'[p] => capped'[p] \/ seen'[p] = text'[p]
      BY DEF KeyboardAgrees
    <3>1. Active(p) /\ focus'[p] = TRUE
      BY <2>4
    <3>2. CASE focus[p]
      <4>1. shown'[p] = shown[p] /\ seen'[p] = seen[p] /\ capped'[p] = capped[p]
        BY <2>4, <3>2 DEF TextTypeInv
      <4>2. text'[p] = text[p]
        BY <2>2, <3>2
      <4> QED
        BY <3>1, <3>2, <4>1, <4>2 DEF KeyboardAgrees
    <3>3. CASE ~focus[p]
      <4>1. shown'[p] = TRUE /\ seen'[p] = text'[p]
        BY <2>4, <3>3
      <4> QED
        BY <3>1, <4>1
    <3> QED
      BY <3>2, <3>3
  <2> QED
    BY <2>5, <2>6, <2>7
<1> QED
  BY <1>2, <1>3

\* A field closes (make_ime_focus_handler, imeEnd).
LEMMA FieldClosesIInv == TextInv /\ FieldCloses => TextInv'
<1> SUFFICES ASSUME TextInv, FieldCloses PROVE TextInv'
  OBVIOUS
<1> USE DEF TextInv
<1>1. open /\ open' = FALSE /\ opened' = opened /\ UNCHANGED <<connected, uuid>>
  BY DEF FieldCloses
<1>behind. open \in BOOLEAN /\ opened \in Nat /\ ended \in Nat /\ ended < opened
  BY <1>1 DEF TextTypeInv, FocusInv
<1>2. CASE ~up
  <2>1. UNCHANGED <<ended, text, focus, listed, shown, seen, capped>>
    BY <1>2 DEF FieldCloses, Misses, phoneVars
  <2>2. \A p \in Phones : Active(p)' <=> Active(p)
    BY <1>1, <2>1 DEF Active
  <2>3. TextTypeInv' /\ FocusInv' /\ KeyboardAgrees'
    BY <1>1, <2>1, <2>2 DEF TextTypeInv, FocusInv, KeyboardAgrees
  <2>4. Recent \subseteq Recent'
    BY <1>behind, <1>1, <2>1 DEF Recent
  <2>5. FreshField'
    BY <2>1, <2>2, <2>4 DEF FreshField
  <2> QED
    BY <2>3, <2>5
<1>3. CASE up
  <2>1. PICK Broken \in SUBSET {p \in Phones : Active(p)} : HearsEnd(Broken)
    BY <1>3 DEF FieldCloses
  <2>2. /\ ended' = opened /\ text' = text
        /\ SetFocus({p \in Phones : Active(p)}, FALSE, Broken)
    BY <1>3, <2>1 DEF FieldCloses, HearsEnd
  <2>3. /\ focus' \in [Phones -> BOOLEAN] /\ listed' \in [Phones -> BOOLEAN]
        /\ shown' \in [Phones -> BOOLEAN] /\ capped' \in [Phones -> BOOLEAN]
        /\ seen' \in [Phones -> Seq(Symbols)]
        /\ \A p \in Phones : Active(p)' =>
              /\ Active(p) /\ focus'[p] = FALSE
              /\ focus[p] = FALSE => shown'[p] = shown[p] /\ seen'[p] = seen[p]
                                      /\ capped'[p] = capped[p]
              /\ focus[p] # FALSE => shown'[p] = FALSE /\ (FALSE => seen'[p] = text'[p])
    <3>1. text' \in [Phones -> Seq(Symbols)]
      BY <2>2 DEF TextTypeInv
    <3> QED
      BY <1>1, <2>2, <3>1, FocusSet
  <2>4. TextTypeInv' /\ FocusInv' /\ FreshField'
    <3>1. \A p \in Phones : Active(p)' => focus'[p] = FALSE
      BY <2>3
    <3>2. TextTypeInv'
      BY <1>1, <2>2, <2>3 DEF TextTypeInv
    <3>3. FocusInv'
      BY <1>behind, <1>1, <2>2, <3>1 DEF FocusInv
    <3> QED
      BY <3>1, <3>2, <3>3 DEF FreshField
  <2>5. KeyboardAgrees'
    <3> SUFFICES ASSUME NEW p \in Phones, Active(p)' PROVE ~shown'[p] /\ ~focus'[p]
      BY DEF KeyboardAgrees
    <3>1. Active(p) /\ focus'[p] = FALSE
      BY <2>3
    <3>2. CASE focus[p]
      BY <2>3, <3>1, <3>2
    <3>3. CASE ~focus[p]
      <4>1. shown'[p] = shown[p]
        BY <2>3, <3>3 DEF TextTypeInv
      <4> QED
        BY <3>1, <3>3, <4>1 DEF KeyboardAgrees
    <3> QED
      BY <3>2, <3>3
  <2> QED
    BY <2>4, <2>5
<1> QED
  BY <1>2, <1>3

\* A session that is made, ended, started or stopped is none that is focused
\* (detach, handle__tistart, handle__tistop).
LEMMA SessionIInv ==
    ASSUME TextInv, NEW p \in Phones,
           Connects(p) \/ Detaches(p) \/ TiStart(p) \/ TiStop(p)
    PROVE  TextInv'
<1> USE DEF TextInv
<1>1. /\ UNCHANGED <<opened, open, ended>>
      /\ shown' = [shown EXCEPT ![p] = FALSE] /\ seen' = [seen EXCEPT ![p] = <<>>]
      /\ capped' = [capped EXCEPT ![p] = FALSE]
  BY DEF Connects, Detaches, TiStart, TiStop, Hides, tvVars
<1>2. PICK b \in BOOLEAN, u \in BOOLEAN, l \in BOOLEAN, f \in BOOLEAN,
           t \in {<<>>, <<Placeholder>>, text[p]} :
         /\ connected' = [connected EXCEPT ![p] = b] /\ uuid' = [uuid EXCEPT ![p] = u]
         /\ listed' = [listed EXCEPT ![p] = l] /\ focus' = [focus EXCEPT ![p] = f]
         /\ text' = [text EXCEPT ![p] = t]
         /\ ~u \/ (~f /\ t = <<>>)
  <2>1. CASE Connects(p) \/ Detaches(p)
    BY <2>1 DEF Connects, Detaches, TextTypeInv
  <2>2. CASE TiStart(p)
    <3>1. connected' = [connected EXCEPT ![p] = connected[p]]
      BY <2>2 DEF TiStart, TextTypeInv
    <3> QED
      BY <2>2, <3>1 DEF TiStart, TextTypeInv
  <2>3. CASE TiStop(p)
    <3>1. /\ connected' = [connected EXCEPT ![p] = connected[p]] /\ focus' = [focus EXCEPT ![p] = focus[p]]
          /\ text' = [text EXCEPT ![p] = text[p]] /\ connected[p] \in BOOLEAN /\ focus[p] \in BOOLEAN
      BY <2>3 DEF TiStop, TextTypeInv
    <3> QED
      BY <2>3, <3>1 DEF TiStop
  <2> QED
    BY <2>1, <2>2, <2>3
<1>3. TextTypeInv'
  <2>1. <<>> \in Seq(Symbols) /\ <<Placeholder>> \in Seq(Symbols)
    BY DEF Symbols
  <2> QED
    BY <1>1, <1>2, <2>1 DEF TextTypeInv
<1>4. ASSUME NEW q \in Phones, q # p
      PROVE  /\ Active(q)' <=> Active(q)
             /\ focus'[q] = focus[q] /\ text'[q] = text[q] /\ shown'[q] = shown[q]
             /\ seen'[q] = seen[q] /\ capped'[q] = capped[q]
  BY <1>1, <1>2, <1>4 DEF TextTypeInv, Active
<1>5. Active(p)' => ~focus'[p] /\ ~shown'[p]
  BY <1>1, <1>2 DEF TextTypeInv, Active
<1>6. FocusInv'
  BY <1>1, <1>4, <1>5 DEF FocusInv
<1>7. FreshField'
  <2>1. Recent' = Recent
    BY <1>1 DEF Recent
  <2> QED
    BY <1>4, <1>5, <2>1 DEF FreshField
<1>8. KeyboardAgrees'
  BY <1>4, <1>5 DEF KeyboardAgrees
<1> QED
  BY <1>3, <1>6, <1>7, <1>8

\* The phone types (handle__tic).
LEMMA TypesIInv ==
    ASSUME TextInv, NEW p \in Phones, NEW assert, assert = NoAssert \/ assert \in Nat,
           NEW count \in Nat, NEW inserted \in BOOLEAN, TiC(p, assert, count, inserted)
    PROVE  TextInv'
<1> USE DEF TextInv
<1>1. Field \in Nat
  BY FieldIsNat
<1>2. PICK result, own : /\ result = Edited(text[p], assert, count, inserted)
                         /\ own = Edited(seen[p], assert, count, inserted)
  OBVIOUS
<1>3. /\ UNCHANGED <<opened, open, ended, connected, uuid, listed, focus, shown>>
      /\ text' = [text EXCEPT ![p] = Clamped(result)]
      /\ seen' = [seen EXCEPT ![p] = IF shown[p] THEN Clamped(own) ELSE @]
      /\ capped' = [capped EXCEPT ![p] = @ \/ (shown[p] /\ Len(result) > MaxText)]
  BY <1>2 DEF TiC, tvVars
<1>4. Clamped(result) \in Seq(Symbols) /\ Clamped(own) \in Seq(Symbols)
  <2>1. \A s \in Seq(Symbols) : Clamped(Edited(s, assert, count, inserted)) \in Seq(Symbols)
    BY <1>1, EditedText, ClampedText DEF Symbols
  <2>2. text[p] \in Seq(Symbols) /\ seen[p] \in Seq(Symbols)
    BY DEF TextTypeInv
  <2> QED
    BY <1>2, <2>1, <2>2
<1>5. TextTypeInv'
  BY <1>3, <1>4 DEF TextTypeInv
<1>6. \A q \in Phones : Active(q)' <=> Active(q)
  BY <1>3 DEF Active
<1>7. FocusInv'
  BY <1>3, <1>6 DEF FocusInv
<1>8. FreshField'
  <2> SUFFICES ASSUME NEW q \in Phones, focus[q], Active(q)
               PROVE  \A i \in DOMAIN text'[q] : text'[q][i] \in Recent
    <3>1. Recent' = Recent
      BY <1>3 DEF Recent
    <3> QED
      BY <1>3, <1>6, <3>1 DEF FreshField
  <2>1. \A i \in DOMAIN text[q] : text[q][i] \in Recent
    BY DEF FreshField
  <2>2. CASE q # p
    BY <1>3, <2>1, <2>2 DEF TextTypeInv
  <2>3. CASE q = p
    <3>0. Field \in Recent
      BY DEF FocusInv, TextTypeInv, Field, Recent
    <3>1. text[p] \in Seq(Symbols) /\ DOMAIN text[p] = 1..Len(text[p])
      BY DEF TextTypeInv
    <3>2. text[p] \in Seq(Recent)
      BY <2>1, <2>3, <3>1
    <3>3. result \in Seq(Recent)
      BY <1>2, <3>0, <3>2, EditedText
    <3>4. Clamped(result) \in Seq(Recent)
      BY <3>3, ClampedText
    <3>5. text'[q] = Clamped(result)
      BY <1>3, <2>3 DEF TextTypeInv
    <3> QED
      BY <3>1, <3>4, <3>5
  <2> QED
    BY <2>2, <2>3
<1>9. KeyboardAgrees'
  <2> SUFFICES ASSUME NEW q \in Phones, Active(q), shown[q], ~capped'[q]
               PROVE  seen'[q] = text'[q]
    BY <1>3, <1>6 DEF KeyboardAgrees
  <2>1. CASE q # p
    BY <1>3, <2>1 DEF TextTypeInv, KeyboardAgrees
  <2>2. CASE q = p
    <3>1. ~capped[p]
      BY <1>3, <2>2 DEF TextTypeInv
    <3>2. seen[p] = text[p]
      BY <2>2, <3>1 DEF KeyboardAgrees
    <3>3. own = result
      BY <1>2, <3>2
    <3> QED
      BY <1>3, <2>2, <3>3 DEF TextTypeInv
  <2> QED
    BY <2>1, <2>2
<1> QED
  BY <1>5, <1>7, <1>8, <1>9

\* Every step keeps the invariant.
LEMMA NextIInv == TextInv /\ [TextNext]_textVars => TextInv'
<1> SUFFICES ASSUME TextInv, [TextNext]_textVars PROVE TextInv'
  OBVIOUS
<1>1. CASE FieldOpens \/ FieldCloses
  BY <1>1, FieldOpensIInv, FieldClosesIInv
<1>2. CASE SocketChanges \/ UNCHANGED textVars
  <2>1. UNCHANGED <<opened, open, ended, connected, uuid, listed, focus, text, shown, seen, capped>>
    BY <1>2 DEF SocketChanges, textVars, tvVars, sessionVars, phoneVars
  <2>2. \A p \in Phones : Active(p)' <=> Active(p)
    BY <2>1 DEF Active
  <2>3. Recent' = Recent
    BY <2>1 DEF Recent
  <2> QED
    BY <2>1, <2>2, <2>3 DEF TextInv, TextTypeInv, FocusInv, FreshField, KeyboardAgrees
<1>3. CASE \E p \in Phones : Connects(p) \/ Detaches(p) \/ TiStart(p) \/ TiStop(p)
  BY <1>3, SessionIInv
<1>4. CASE \E p \in Phones : Types(p)
  <2>1. PICK p \in Phones, assert \in {NoAssert, 0, MaxText + 1}, count \in 0..(MaxText + 1),
             inserted \in BOOLEAN : TiC(p, assert, count, inserted)
    BY <1>4 DEF Types
  <2>2. (assert = NoAssert \/ assert \in Nat) /\ count \in Nat
    BY <2>1, TextInputAssumption
  <2> QED
    BY <2>1, <2>2, TypesIInv
<1> QED
  BY <1>1, <1>2, <1>3, <1>4 DEF TextNext

-----------------------------------------------------------------------------
(* The keyboard's theorems.                                                 *)

\* Phones, fields and socket in any order (make_ime_focus_handler, handle__tistart, handle__tic).
LEMMA TextInputInvariant == TextSpec => []TextInv
<1> QED
  BY InitIInv, NextIInv, PTL DEF TextSpec

\* No character older than the last imeEnd heard is left to be written into a field, whatever events
\* are lost (make_ime_focus_handler).
THEOREM FieldsStartFresh == TextSpec => []FreshField
<1>1. TextInv => FreshField
  BY DEF TextInv
<1> QED
  BY <1>1, TextInputInvariant, PTL

\* Phone and service hold the same text wherever a keyboard is up (handle__tic, _tiStart, _tiStop).
THEOREM KeyboardsAgree == TextSpec => []KeyboardAgrees
<1>1. TextInv => KeyboardAgrees
  BY DEF TextInv
<1> QED
  BY <1>1, TextInputInvariant, PTL

-----------------------------------------------------------------------------
(* The limit of the texts.                                                  *)

\* A text of at most MaxText characters, each typed for a field that the TV has opened.
Short(s) == s \in Seq(Chars) /\ Len(s) <= MaxText

\* Short is what TextTypeOK says of a text.
LEMMA ShortTexts == \A s : Short(s) => s \in Texts
<1> SUFFICES ASSUME NEW s, Short(s) PROVE s \in Texts
  OBVIOUS
<1>1. MaxText \in Nat /\ Len(s) \in Nat /\ Len(s) <= MaxText
  BY TextInputAssumption DEF Short
<1>2. s \in [1..Len(s) -> Chars] /\ Len(s) \in 0..MaxText
  BY <1>1 DEF Short
<1> QED
  BY <1>2 DEF Texts, BoundedSeq, SeqOf

\* Cutting off is what keeps a text short (_RTI_MAX_TEXT).
LEMMA ClampedIsShort == ASSUME NEW s \in Seq(Chars) PROVE Short(Clamped(s))
<1>1. MaxText \in Nat /\ Len(s) \in Nat
  BY TextInputAssumption
<1>2. CASE Len(s) > MaxText
  <2>1. Clamped(s) = SubSeq(s, 1, MaxText)
    BY <1>2 DEF Clamped
  <2>2. SubSeq(s, 1, MaxText) \in Seq(Chars) /\ Len(SubSeq(s, 1, MaxText)) = MaxText
    BY <1>1, <1>2
  <2> QED
    BY <1>1, <2>1, <2>2 DEF Short
<1>3. CASE ~(Len(s) > MaxText)
  BY <1>1, <1>3 DEF Clamped, Short
<1> QED
  BY <1>2, <1>3

\* The texts that a session is started with are short.
LEMMA StartTexts == Short(<<>>) /\ Short(<<Placeholder>>)
<1>1. MaxText \in Nat \ {0} /\ Placeholder \in Chars
  BY TextInputAssumption DEF Chars
<1>2. <<>> \in Seq(Chars) /\ Len(<<>>) = 0 /\ <<Placeholder>> \in Seq(Chars)
      /\ Len(<<Placeholder>>) = 1
  BY <1>1
<1> QED
  BY <1>1, <1>2 DEF Short

ShortInv ==
    /\ opened \in 0..MaxFields /\ ended \in 0..opened
    /\ \A p \in Phones : Short(text[p]) /\ Short(seen[p])

\* What a change of focus shows the phones is short (the rti_focus_state setter).
LEMMA FocusShort ==
    ASSUME ShortInv, NEW F, NEW value, NEW Broken, SetFocus(F, value, Broken),
           \A p \in Phones : Short(text'[p])
    PROVE  \A p \in Phones : Short(seen'[p])
  BY StartTexts DEF SetFocus, ShortInv

\* The TV's events keep the texts short.
LEMMA FieldsShort ==
    ASSUME TextInv, ShortInv, FieldOpens \/ FieldCloses PROVE ShortInv'
<1>1. opened' \in 0..MaxFields
  BY TextInputAssumption DEF FieldOpens, FieldCloses, ShortInv
<1>2. ended' \in 0..opened'
  BY TextInputAssumption DEF FieldOpens, FieldCloses, ShortInv
<1>3. CASE ~up
  <2>1. UNCHANGED <<text, seen>>
    BY <1>3 DEF FieldOpens, FieldCloses, Misses, phoneVars
  <2> QED
    BY <1>1, <1>2, <2>1 DEF ShortInv
<1>4. CASE up
  <2>1. PICK Broken : HearsStart(Broken) \/ HearsEnd(Broken)
    BY <1>4 DEF FieldOpens, FieldCloses
  <2>2. \A p \in Phones : Short(text'[p])
    BY <2>1, StartTexts DEF HearsStart, HearsEnd, ShortInv
  <2>3. \A p \in Phones : Short(seen'[p])
    BY <2>1, <2>2, FocusShort DEF HearsStart, HearsEnd
  <2> QED
    BY <1>1, <1>2, <2>2, <2>3 DEF ShortInv
<1> QED
  BY <1>3, <1>4

\* The phones' messages keep them short (detach, handle__tistart, handle__tistop, handle__tic).
LEMMA MessagesShort ==
    ASSUME TextInv, ShortInv, NEW p \in Phones,
           Connects(p) \/ Detaches(p) \/ TiStart(p) \/ TiStop(p) \/ Types(p)
    PROVE  ShortInv'
<1>1. UNCHANGED <<opened, ended>>
  BY DEF Connects, Detaches, TiStart, TiStop, Types, TiC, tvVars
<1>2. text \in [Phones -> Seq(Symbols)] /\ seen \in [Phones -> Seq(Symbols)]
  BY DEF TextInv, TextTypeInv
<1>3. PICK t, s : /\ text' = [text EXCEPT ![p] = t] /\ seen' = [seen EXCEPT ![p] = s]
                  /\ Short(t) /\ Short(s)
  <2>1. Short(text[p]) /\ Short(seen[p])
    BY DEF ShortInv
  <2>2. CASE Connects(p) \/ Detaches(p) \/ TiStart(p) \/ TiStop(p)
    <3>1. seen' = [seen EXCEPT ![p] = <<>>]
      BY <2>2 DEF Connects, Detaches, TiStart, TiStop, Hides
    <3>2. \E t \in {<<>>, <<Placeholder>>, text[p]} : text' = [text EXCEPT ![p] = t]
      <4>1. CASE Connects(p) \/ Detaches(p) \/ TiStart(p)
        BY <4>1 DEF Connects, Detaches, TiStart
      <4>2. CASE TiStop(p)
        <5>1. text' = text
          BY <4>2 DEF TiStop
        <5>2. text = [text EXCEPT ![p] = text[p]]
          BY <1>2
        <5> QED
          BY <5>1, <5>2
      <4> QED
        BY <2>2, <4>1, <4>2
    <3> QED
      BY <2>1, <3>1, <3>2, StartTexts
  <2>3. CASE Types(p)
    <3>1. PICK assert \in {NoAssert, 0, MaxText + 1}, count \in 0..(MaxText + 1),
               inserted \in BOOLEAN : TiC(p, assert, count, inserted)
      BY <2>3 DEF Types
    <3>2. PICK result, own : /\ result = Edited(text[p], assert, count, inserted)
                             /\ own = Edited(seen[p], assert, count, inserted)
      OBVIOUS
    <3>3. /\ text' = [text EXCEPT ![p] = Clamped(result)]
          /\ seen' = [seen EXCEPT ![p] = IF shown[p] THEN Clamped(own) ELSE @]
      BY <3>1, <3>2 DEF TiC
    <3>4. Field \in Chars /\ (assert = NoAssert \/ assert \in Nat) /\ count \in Nat
      BY TextInputAssumption DEF Field, Chars, ShortInv
    <3>5. text[p] \in Seq(Chars) /\ seen[p] \in Seq(Chars)
      BY <2>1 DEF Short
    <3>6. \A old \in Seq(Chars) : Edited(old, assert, count, inserted) \in Seq(Chars)
      BY <3>4, EditedText
    <3>7. Short(Clamped(result)) /\ Short(Clamped(own))
      BY <3>2, <3>5, <3>6, ClampedIsShort
    <3>8. seen' = [seen EXCEPT ![p] = IF shown[p] THEN Clamped(own) ELSE seen[p]]
      BY <1>2, <3>3
    <3>9. Short(IF shown[p] THEN Clamped(own) ELSE seen[p])
      BY <2>1, <3>7
    <3> QED
      BY <3>3, <3>7, <3>8, <3>9
  <2> QED
    BY <2>2, <2>3
<1>4. ASSUME NEW q \in Phones PROVE Short(text'[q]) /\ Short(seen'[q])
  <2>1. CASE q = p
    BY <1>2, <1>3, <2>1
  <2>2. CASE q # p
    BY <1>2, <1>3, <2>2 DEF ShortInv
  <2> QED
    BY <2>1, <2>2
<1> QED
  BY <1>1, <1>4 DEF ShortInv

\* Every step keeps the texts short.
LEMMA NextShort == TextInv /\ ShortInv /\ [TextNext]_textVars => ShortInv'
<1> SUFFICES ASSUME TextInv, ShortInv, [TextNext]_textVars PROVE ShortInv'
  OBVIOUS
<1>1. CASE FieldOpens \/ FieldCloses
  BY <1>1, FieldsShort
<1>2. CASE SocketChanges \/ UNCHANGED textVars
  BY <1>2 DEF SocketChanges, textVars, tvVars, sessionVars, phoneVars, ShortInv
<1>3. CASE \E p \in Phones : Connects(p) \/ Detaches(p) \/ TiStart(p) \/ TiStop(p) \/ Types(p)
  BY <1>3, MessagesShort
<1> QED
  BY <1>1, <1>2, <1>3 DEF TextNext

UpInv == up \in BOOLEAN

\* Whatever a phone types, the service keeps no more than _RTI_MAX_TEXT characters of it, none of
\* them typed for a field that the TV never opened (handle__tic).
THEOREM TextsAreBounded == TextSpec => []TextTypeOK
<1>1. TextInit => ShortInv
  BY StartTexts, TextInputAssumption DEF TextInit, ShortInv
<1>2. TextInv /\ ShortInv /\ UpInv => TextTypeOK
  <2> SUFFICES ASSUME TextInv, ShortInv, UpInv PROVE TextTypeOK
    OBVIOUS
  <2>1. text \in [Phones -> Texts] /\ seen \in [Phones -> Texts]
    BY ShortTexts DEF TextInv, TextTypeInv, ShortInv
  <2>2. /\ open \in BOOLEAN /\ connected \in [Phones -> BOOLEAN]
        /\ uuid \in [Phones -> BOOLEAN] /\ listed \in [Phones -> BOOLEAN]
        /\ focus \in [Phones -> BOOLEAN] /\ shown \in [Phones -> BOOLEAN]
        /\ capped \in [Phones -> BOOLEAN]
    BY DEF TextInv, TextTypeInv
  <2>3. opened \in 0..MaxFields /\ ended \in 0..opened
    BY DEF ShortInv
  <2>4. up \in BOOLEAN
    BY DEF UpInv
  <2> QED
    BY <2>1, <2>2, <2>3, <2>4 DEF TextTypeOK
<1>3. TextInit => UpInv
  BY DEF TextInit, UpInv
<1>4. UpInv /\ [TextNext]_textVars => UpInv'
  BY DEF UpInv, TextNext, FieldOpens, FieldCloses, SocketChanges, Connects, Detaches, TiStart,
     TiStop, Types, TiC, textVars, tvVars
<1> QED
  BY <1>1, <1>2, <1>3, <1>4, InitIInv, NextIInv, NextShort, PTL DEF TextSpec

-----------------------------------------------------------------------------
(* What the hold repeater's properties rest on.                             *)

\* The lane's commands are numbered as they were accepted.
LaneNumbered ==
    /\ \A x \in pending : x.number <= accepted
    /\ \A x, y \in pending : x.number = y.number => x = y

\* A session belongs to its own open connection, and the latest one has the latest owner.
SessionShape ==
    \A c \in Connections : session[c] # NoOwner =>
        conn[c] = "open" /\ session[c][1] = c /\ session[c][2] <= sessions[c]

\* A gesture that starts a hold stays a hold until the finger leaves.
RelayShape == \A c \in Connections : active[c] => wasActive[c]

\* A hold sends one repeat at a time, and waits for its answer as long as the lane has it.
RepeatAwaited ==
    \A x \in pending : x.gen # NoGeneration =>
        task[x.owner[1]][x.gen] = "sending" /\ answer[x.owner[1]][x.gen] = "none"

\* Generations are not used again.
HoldsFresh == \A c \in Connections, g \in Holds : holds[c] < g => task[c][g] = "none"

HoldInv ==
    /\ TypeOK
    /\ LaneNumbered /\ SessionShape /\ RelayShape /\ RepeatAwaited /\ HoldsFresh
    /\ WorkHasSession /\ RepeatHasHold /\ HandlesAgree

\* What every command of the lane is.
LEMMA CommandFacts ==
    ASSUME TypeOK, NEW x \in pending
    PROVE  /\ x.number \in Nat /\ x.owner \in Owners /\ x.owner[1] \in Connections
           /\ x.gen = NoGeneration \/ x.gen \in Holds
           /\ x.owner # NoOwner
BY HoldAssumption DEF TypeOK, Lane!Command, Owners, HoldAssumption

\* A connection holds at most one key, for its current session.
LEMMA OneHold ==
    ASSUME HoldInv, NEW c \in Connections
    PROVE  /\ AllHeld(c) \subseteq Holds
           /\ \A g, h \in AllHeld(c) : g = h
           /\ \A g \in AllHeld(c) : repeatOwner[c][g] = session[c] /\ session[c] \in Owners
                                   /\ session[c][1] = c
<1>1. AllHeld(c) \subseteq Holds
  BY DEF HoldInv, TypeOK, AllHeld
<1>2. \A g, h \in AllHeld(c) : g = h
  BY DEF HoldInv, HandlesAgree, AllHeld
<1>3. \A g \in AllHeld(c) : repeatOwner[c][g] = session[c] /\ session[c] # NoOwner
  BY <1>1 DEF HoldInv, HandlesAgree, Repeating
<1>4. session[c] # NoOwner => session[c] \in Owners /\ session[c][1] = c
  BY DEF HoldInv, TypeOK, SessionShape
<1> QED
  BY <1>1, <1>2, <1>3, <1>4

\* _cancel, hold by hold.
HoldsStopped(c, G, ending) ==
    /\ held' \in [Connections -> [Keys -> Holds \cup {0}]]
    /\ repeatOwner' \in [Connections -> [Holds -> Owners \cup {NoOwner}]]
    /\ task' \in [Connections ->
          [Holds -> {"none", "sleeping", "sending", "cancelled", "ended"}]]
    /\ \A d \in Connections, k \in Keys :
          held'[d][k] = IF d = c /\ held[d][k] \in G THEN 0 ELSE held[d][k]
    /\ \A d \in Connections, g \in Holds :
          /\ repeatOwner'[d][g] = IF d = c /\ g \in G THEN NoOwner ELSE repeatOwner[d][g]
          /\ task'[d][g] = IF d = c /\ g \in ending THEN "ended"
                           ELSE IF d = c /\ g \in G THEN "cancelled" ELSE task[d][g]
          /\ Repeating(d, g)' <=> Repeating(d, g) /\ ~(d = c /\ g \in G)

\* The handles, owners and tasks that a cancellation leaves.
LEMMA CancelledHolds ==
    ASSUME TypeOK, NEW c \in Connections, NEW G \in SUBSET Holds, NEW ending \in SUBSET Holds,
           CancelsHolds(c, G, ending)
    PROVE  HoldsStopped(c, G, ending)
<1> USE DEF TypeOK
<1>1. /\ held' = [held EXCEPT ![c] = [k \in Keys |-> IF @[k] \in G THEN 0 ELSE @[k]]]
      /\ repeatOwner' = [repeatOwner EXCEPT ![c] = [g \in Holds |->
                            IF g \in G THEN NoOwner ELSE @[g]]]
      /\ task' = [task EXCEPT ![c] = [g \in Holds |->
                     IF g \in ending THEN "ended" ELSE IF g \in G THEN "cancelled" ELSE @[g]]]
  BY DEF CancelsHolds
<1>2. held' \in [Connections -> [Keys -> Holds \cup {0}]]
  BY <1>1
<1>3. repeatOwner' \in [Connections -> [Holds -> Owners \cup {NoOwner}]]
  BY <1>1
<1>4. task' \in [Connections -> [Holds -> {"none", "sleeping", "sending", "cancelled", "ended"}]]
  BY <1>1
<1>5. \A d \in Connections, k \in Keys :
         held'[d][k] = IF d = c /\ held[d][k] \in G THEN 0 ELSE held[d][k]
  BY <1>1
<1>6. \A d \in Connections, g \in Holds :
         repeatOwner'[d][g] = IF d = c /\ g \in G THEN NoOwner ELSE repeatOwner[d][g]
  BY <1>1
<1>7. \A d \in Connections, g \in Holds :
         task'[d][g] = IF d = c /\ g \in ending THEN "ended"
                       ELSE IF d = c /\ g \in G THEN "cancelled" ELSE task[d][g]
  BY <1>1
<1>8. \A d \in Connections, g \in Holds :
         Repeating(d, g)' <=> Repeating(d, g) /\ ~(d = c /\ g \in G)
  <2> SUFFICES ASSUME NEW d \in Connections, NEW g \in Holds
               PROVE  Repeating(d, g)' <=> Repeating(d, g) /\ ~(d = c /\ g \in G)
    OBVIOUS
  <2>1. g # 0
    BY DEF Holds
  <2>2. Repeating(d, g) <=> \E k \in Keys : held[d][k] = g
    BY <2>1 DEF Repeating, AllHeld
  <2>3. Repeating(d, g)' <=> \E k \in Keys : held'[d][k] = g
    BY <2>1 DEF Repeating, AllHeld
  <2> QED
    BY <1>5, <2>1, <2>2, <2>3
<1> QED
  BY <1>2, <1>3, <1>4, <1>5, <1>6, <1>7, <1>8 DEF HoldsStopped

\* The repeats of a connection's holds are its own commands.
LEMMA TaggedOwn ==
    ASSUME HoldInv, NEW c \in Connections, NEW G \in SUBSET AllHeld(c)
    PROVE  /\ Tagged(c, G) = {x \in pending : x.owner[1] = c /\ x.gen \in G}
           /\ \A x \in Tagged(c, G) : x.owner = session[c] /\ x.gen # NoGeneration
<1>1. \A g \in G : repeatOwner[c][g] = session[c] /\ session[c][1] = c /\ g # NoGeneration
  BY OneHold DEF Holds, NoGeneration
<1>2. \A x \in pending : x.owner[1] = c => x.owner = session[c]
  BY DEF HoldInv, WorkHasSession
<1> QED
  BY <1>1, <1>2 DEF Tagged

\* Stopping holds, with what the lane has of them, and perhaps the session with them.
LEMMA StopsInv ==
    ASSUME HoldInv, NEW c \in Connections,
           NEW G \in SUBSET AllHeld(c), NEW ending \in SUBSET Holds,
           \A g \in ending : task[c][g] # "none" /\ (Repeating(c, g) => g \in G),
           NEW W \in SUBSET pending, Tagged(c, G) \subseteq W,
           CancelsHolds(c, G, ending), Lane!Withdraw(W),
           live' \subseteq Owners, accepted' = accepted, UNCHANGED <<runVars, authorized>>,
           conn' \in [Connections -> {"open", "closing", "lost"}],
           sessions' \in [Connections -> 0..MaxSessions],
           session' \in [Connections -> Owners \cup {NoOwner}],
           dir' \in [Connections -> Keys \cup {NoKey}],
           active' \in [Connections -> BOOLEAN], wasActive' \in [Connections -> BOOLEAN],
           \A d \in Connections \ {c} :
              /\ dir'[d] = dir[d] /\ active'[d] = active[d]
              /\ session'[d] = session[d] /\ conn'[d] = conn[d],
           RelayShape', SessionShape',
           \A k \in Keys : held[c][k] # 0 => held[c][k] \in G \/ (active'[c] /\ dir'[c] = k),
           \A x \in pending \ W : x.owner[1] = c => session'[c] = session[c] /\ conn'[c] = conn[c],
           AllHeld(c) \subseteq G \/ session'[c] = session[c]
    PROVE  HoldInv'
<1>0. G \in SUBSET Holds /\ TypeOK
  BY OneHold DEF HoldInv
<1>h. HoldsStopped(c, G, ending)
  BY <1>0, CancelledHolds
<1>1. /\ held' \in [Connections -> [Keys -> Holds \cup {0}]]
      /\ repeatOwner' \in [Connections -> [Holds -> Owners \cup {NoOwner}]]
      /\ task' \in [Connections ->
            [Holds -> {"none", "sleeping", "sending", "cancelled", "ended"}]]
  BY <1>h DEF HoldsStopped
<1>2. \A d \in Connections, k \in Keys :
         held'[d][k] = IF d = c /\ held[d][k] \in G THEN 0 ELSE held[d][k]
  BY <1>h DEF HoldsStopped
<1>3. \A d \in Connections, g \in Holds :
         /\ repeatOwner'[d][g] = IF d = c /\ g \in G THEN NoOwner ELSE repeatOwner[d][g]
         /\ task'[d][g] = IF d = c /\ g \in ending THEN "ended"
                          ELSE IF d = c /\ g \in G THEN "cancelled" ELSE task[d][g]
  BY <1>h DEF HoldsStopped
<1>4. \A d \in Connections, g \in Holds :
         Repeating(d, g)' <=> Repeating(d, g) /\ ~(d = c /\ g \in G)
  BY <1>h DEF HoldsStopped
<1>5. pending' = pending \ W /\ delivered' = delivered
      /\ holds' = holds /\ answer' = answer /\ repeats' = repeats /\ authorized' = authorized
      /\ atTV' \in BOOLEAN
  BY <1>0 DEF Lane!Withdraw, runVars, TypeOK
<1>6. TypeOK'
  BY <1>0, <1>1, <1>5 DEF TypeOK
<1>7. LaneNumbered' /\ HoldsFresh'
  <2>1. LaneNumbered'
    BY <1>5 DEF HoldInv, LaneNumbered
  <2>2. HoldsFresh'
    <3> SUFFICES ASSUME NEW d \in Connections, NEW g \in Holds, holds[d] < g
                 PROVE  task'[d][g] = "none"
      BY <1>5 DEF HoldsFresh
    <3>1. task[d][g] = "none"
      BY DEF HoldInv, HoldsFresh
    <3>2. ~Repeating(d, g)
      BY <3>1 DEF HoldInv, HandlesAgree
    <3> QED
      BY <1>3, <3>1, <3>2 DEF Repeating
  <2> QED
    BY <2>1, <2>2
<1>8. ASSUME NEW x \in pending', x.gen # NoGeneration
      PROVE  /\ task'[x.owner[1]][x.gen] = "sending" /\ answer'[x.owner[1]][x.gen] = "none"
             /\ Repeating(x.owner[1], x.gen)'
  <2>1. x \in pending /\ x \notin W
    BY <1>5
  <2>2. x.owner[1] \in Connections /\ x.gen \in Holds
    BY <1>0, <1>8, <2>1, CommandFacts
  <2>3. /\ task[x.owner[1]][x.gen] = "sending" /\ answer[x.owner[1]][x.gen] = "none"
        /\ Repeating(x.owner[1], x.gen)
    BY <1>8, <2>1 DEF HoldInv, RepeatAwaited, RepeatHasHold
  <2>4. x.owner[1] = c => x.gen \notin G
    BY <2>1, TaggedOwn
  <2>5. x.owner[1] = c => x.gen \notin ending
    BY <2>3, <2>4
  <2> QED
    BY <1>3, <1>4, <1>5, <2>2, <2>3, <2>4, <2>5
<1>9. RepeatAwaited' /\ RepeatHasHold'
  <2>1. \A x, y \in pending' :
           x.gen # NoGeneration /\ y.gen # NoGeneration /\ x.owner[1] = y.owner[1] => x = y
    BY <1>5 DEF HoldInv, RepeatHasHold
  <2> QED
    BY <1>8, <2>1 DEF RepeatAwaited, RepeatHasHold
<1>10. WorkHasSession'
  <2> SUFFICES ASSUME NEW x \in pending'
               PROVE  conn'[x.owner[1]] = "open" /\ session'[x.owner[1]] = x.owner
    BY DEF WorkHasSession
  <2>1. x \in pending /\ x \notin W
    BY <1>5
  <2>2. x.owner[1] \in Connections
    BY <1>0, <2>1, CommandFacts
  <2>3. conn[x.owner[1]] = "open" /\ session[x.owner[1]] = x.owner
    BY <2>1 DEF HoldInv, WorkHasSession
  <2> QED
    BY <2>1, <2>2, <2>3
<1>11. HandlesAgree'
  <2>1. ASSUME NEW d \in Connections, NEW g \in Holds
        PROVE  /\ Repeating(d, g)' <=> task'[d][g] \in {"sleeping", "sending"}
               /\ Repeating(d, g)' => repeatOwner'[d][g] = session'[d] /\ session'[d] # NoOwner
               /\ ~Repeating(d, g)' => repeatOwner'[d][g] = NoOwner
    <3>1. /\ Repeating(d, g) <=> task[d][g] \in {"sleeping", "sending"}
          /\ Repeating(d, g) => repeatOwner[d][g] = session[d] /\ session[d] # NoOwner
          /\ ~Repeating(d, g) => repeatOwner[d][g] = NoOwner
      BY DEF HoldInv, HandlesAgree
    <3>2. Repeating(d, g) /\ d = c /\ g \notin G => session'[d] = session[d]
      BY DEF Repeating
    <3> QED
      BY <1>3, <1>4, <3>1, <3>2
  <2>2. ASSUME NEW d \in Connections, NEW k \in Keys, held'[d][k] # 0
        PROVE  active'[d] /\ dir'[d] = k
    <3>1. held[d][k] # 0 /\ ~(d = c /\ held[d][k] \in G)
      BY <1>2, <2>2
    <3>2. active[d] /\ dir[d] = k
      BY <3>1 DEF HoldInv, HandlesAgree
    <3> QED
      BY <3>1, <3>2
  <2> QED
    BY <2>1, <2>2 DEF HandlesAgree
<1> QED
  BY <1>6, <1>7, <1>9, <1>10, <1>11 DEF HoldInv

\* The end of a session: nothing of its connection is left in the lane, no hold and no owner.
LEMMA SessionEndsInv ==
    ASSUME HoldInv, NEW c \in Connections, NEW ending \in SUBSET Holds,
           \A g \in ending : task[c][g] # "none",
           EndsSession(c, ending),
           live' \subseteq Owners, accepted' = accepted, UNCHANGED <<relayVars, runVars, authorized>>,
           conn' \in [Connections -> {"open", "closing", "lost"}],
           sessions' \in [Connections -> 0..MaxSessions],
           session' \in [Connections -> Owners \cup {NoOwner}],
           \A d \in Connections \ {c} : session'[d] = session[d] /\ conn'[d] = conn[d],
           SessionShape'
    PROVE  HoldInv'
<1> DEFINE W == Tagged(c, AllHeld(c)) \cup {x \in pending : x.owner = session[c]}
<1>1. CancelsHolds(c, AllHeld(c), ending) /\ Lane!Withdraw(W)
  BY DEF EndsSession
<1>2. W \in SUBSET pending /\ Tagged(c, AllHeld(c)) \subseteq W
  BY DEF Tagged
<1>3. \A x \in pending \ W : x.owner[1] # c
  BY DEF HoldInv, WorkHasSession
<1>4. \A k \in Keys : held[c][k] # 0 => held[c][k] \in AllHeld(c)
  BY DEF AllHeld
<1>5. \A g \in ending : Repeating(c, g) => g \in AllHeld(c)
  BY DEF Repeating
<1>6. /\ dir' \in [Connections -> Keys \cup {NoKey}]
      /\ active' \in [Connections -> BOOLEAN] /\ wasActive' \in [Connections -> BOOLEAN]
      /\ RelayShape'
      /\ \A d \in Connections : dir'[d] = dir[d] /\ active'[d] = active[d]
  BY DEF HoldInv, TypeOK, relayVars, RelayShape
<1> HIDE DEF W
<1> QED
  BY <1>1, <1>2, <1>3, <1>4, <1>5, <1>6, StopsInv

\* A start, also in the middle of a session, ends the old one first (handle_tvrcsessionstart).
LEMMA SessionStartInv ==
    ASSUME HoldInv, NEW c \in Connections, SessionStart(c)
    PROVE  HoldInv'
<1> DEFINE o == <<c, sessions[c] + 1>>
<1>1. sessions[c] \in Nat /\ sessions[c] + 1 \in 1..MaxSessions /\ sessions[c] + 1 \in 0..MaxSessions
  BY HoldAssumption DEF HoldInv, TypeOK, SessionStart, HoldAssumption
<1>2. o \in Owners /\ o[1] = c /\ o[2] = sessions[c] + 1
  BY <1>1 DEF Owners
<1> HIDE DEF o
<1>3. /\ session' = [session EXCEPT ![c] = o] /\ sessions' = [sessions EXCEPT ![c] = @ + 1]
      /\ live' = (live \ {session[c]}) \cup {o} /\ conn' = conn /\ conn[c] = "open"
      /\ EndsSession(c, {}) /\ accepted' = accepted /\ UNCHANGED <<relayVars, runVars, authorized>>
  BY DEF SessionStart, Handles, o
<1>4. /\ live' \subseteq Owners /\ conn' \in [Connections -> {"open", "closing", "lost"}]
      /\ sessions' \in [Connections -> 0..MaxSessions]
      /\ session' \in [Connections -> Owners \cup {NoOwner}]
  BY <1>1, <1>2, <1>3 DEF HoldInv, TypeOK
<1>5. \A d \in Connections \ {c} : session'[d] = session[d] /\ conn'[d] = conn[d]
                                  /\ sessions'[d] = sessions[d]
  BY <1>3 DEF HoldInv, TypeOK
<1>6. session'[c] = o /\ sessions'[c] = sessions[c] + 1
  BY <1>3 DEF HoldInv, TypeOK
<1>7. SessionShape'
  BY <1>1, <1>2, <1>3, <1>5, <1>6 DEF HoldInv, SessionShape
<1> QED
  BY <1>3, <1>4, <1>5, <1>7, SessionEndsInv

\* Every other end of a session leaves the connection without one.
LEMMA SessionGoneInv ==
    ASSUME HoldInv, NEW c \in Connections, NEW ending \in SUBSET Holds,
           \A g \in ending : task[c][g] # "none",
           EndsSession(c, ending), session' = [session EXCEPT ![c] = NoOwner],
           live' = live \ {session[c]}, UNCHANGED <<accepted, sessions, relayVars, runVars, authorized>>,
           NEW next \in {"open", "closing", "lost"}, conn' = [conn EXCEPT ![c] = next]
    PROVE  HoldInv'
<1>1. /\ live' \subseteq Owners /\ conn' \in [Connections -> {"open", "closing", "lost"}]
      /\ sessions' \in [Connections -> 0..MaxSessions]
      /\ session' \in [Connections -> Owners \cup {NoOwner}]
  BY DEF HoldInv, TypeOK
<1>2. session'[c] = NoOwner
  BY DEF HoldInv, TypeOK
<1>3. \A d \in Connections \ {c} : session'[d] = session[d] /\ conn'[d] = conn[d]
  BY DEF HoldInv, TypeOK
<1>4. SessionShape'
  BY <1>2, <1>3 DEF HoldInv, SessionShape
<1> QED
  BY <1>1, <1>3, <1>4, SessionEndsInv

\* TVRCSessionStop.
LEMMA SessionStopInv ==
    ASSUME HoldInv, NEW c \in Connections, SessionStop(c)
    PROVE  HoldInv'
<1>1. conn' = [conn EXCEPT ![c] = conn[c]] /\ conn[c] \in {"open", "closing", "lost"}
  BY DEF SessionStop, HoldInv, TypeOK
<1> QED
  BY <1>1, SessionGoneInv DEF SessionStop

\* A close by the service, or by the phone (_close_connection, connection_lost).
LEMMA DisconnectInv ==
    ASSUME HoldInv, NEW c \in Connections, Close(c) \/ ConnectionLost(c)
    PROVE  HoldInv'
<1>1. PICK next \in {"closing", "lost"} : Disconnects(c, next, {})
  BY DEF Close, ConnectionLost
<1> QED
  BY <1>1, SessionGoneInv DEF Disconnects, Close, ConnectionLost

\* A repeat task that finds the client revoked closes its connection (_send_repeat_key).
LEMMA RepeatRevokedInv ==
    ASSUME HoldInv, NEW c \in Connections, NEW g \in Holds, RepeatRevoked(c, g)
    PROVE  HoldInv'
<1>1. PICK next \in {"open", "closing", "lost"} : Disconnects(c, next, {g})
  BY DEF RepeatRevoked, HoldInv, TypeOK
<1> QED
  BY <1>1, SessionGoneInv DEF Disconnects, RepeatRevoked

-----------------------------------------------------------------------------
(* Frames and repeat tasks that stop holds.                                 *)

\* The end of holds within a session.
LEMMA HoldsStopInv ==
    ASSUME HoldInv, NEW c \in Connections,
           NEW G \in SUBSET AllHeld(c), NEW ending \in SUBSET Holds,
           \A g \in ending : task[c][g] # "none" /\ (Repeating(c, g) => g \in G),
           CancelsHolds(c, G, ending), Lane!Withdraw(Tagged(c, G)),
           UNCHANGED <<live, accepted, runVars, connVars, authorized>>,
           dir' \in [Connections -> Keys \cup {NoKey}],
           active' \in [Connections -> BOOLEAN], wasActive' \in [Connections -> BOOLEAN],
           \A d \in Connections \ {c} : dir'[d] = dir[d] /\ active'[d] = active[d],
           RelayShape',
           \A k \in Keys : held[c][k] # 0 => held[c][k] \in G \/ (active'[c] /\ dir'[c] = k)
    PROVE  HoldInv'
<1>1. /\ live' \subseteq Owners /\ conn' \in [Connections -> {"open", "closing", "lost"}]
      /\ sessions' \in [Connections -> 0..MaxSessions]
      /\ session' \in [Connections -> Owners \cup {NoOwner}]
      /\ SessionShape' /\ session' = session /\ conn' = conn /\ accepted' = accepted
      /\ UNCHANGED <<runVars, authorized>>
  BY DEF HoldInv, TypeOK, connVars, SessionShape
<1>2. Tagged(c, G) \in SUBSET pending
  BY DEF Tagged
<1> QED
  BY <1>1, <1>2, StopsInv

\* What a relay that forgets its gesture still has.
LEMMA RelayForgets ==
    ASSUME HoldInv, NEW c \in Connections, ResetRelay(c)
    PROVE  /\ dir' \in [Connections -> Keys \cup {NoKey}]
           /\ active' \in [Connections -> BOOLEAN] /\ wasActive' \in [Connections -> BOOLEAN]
           /\ \A d \in Connections \ {c} : dir'[d] = dir[d] /\ active'[d] = active[d]
                                           /\ wasActive'[d] = wasActive[d]
           /\ dir'[c] = NoKey /\ ~active'[c]
           /\ RelayShape'
<1>1. /\ dir' = [dir EXCEPT ![c] = NoKey] /\ active' = [active EXCEPT ![c] = FALSE]
      /\ wasActive' = [wasActive EXCEPT ![c] = FALSE]
  BY DEF ResetRelay
<1>2. /\ dir' \in [Connections -> Keys \cup {NoKey}]
      /\ active' \in [Connections -> BOOLEAN] /\ wasActive' \in [Connections -> BOOLEAN]
  BY <1>1 DEF HoldInv, TypeOK
<1>3. \A d \in Connections \ {c} : dir'[d] = dir[d] /\ active'[d] = active[d]
                                /\ wasActive'[d] = wasActive[d]
  BY <1>1 DEF HoldInv, TypeOK
<1>4. dir'[c] = NoKey /\ active'[c] = FALSE
  BY <1>1 DEF HoldInv, TypeOK
<1>5. RelayShape'
  BY <1>3, <1>4 DEF HoldInv, RelayShape
<1> QED
  BY <1>2, <1>3, <1>4, <1>5

\* The active hold is the only one.
LEMMA ActiveHoldIsAll ==
    ASSUME HoldInv, NEW c \in Connections, NEW d
    PROVE  /\ ActiveHold(c, d) \in SUBSET AllHeld(c)
           /\ \A k \in Keys : held[c][k] # 0 => held[c][k] \in ActiveHold(c, d)
<1>1. \A k \in Keys : held[c][k] # 0 => active[c] /\ dir[c] = k
  BY DEF HoldInv, HandlesAgree
<1>2. dir[c] \in Keys \cup {NoKey} /\ NoKey \notin Keys
  BY HoldAssumption DEF HoldInv, TypeOK, HoldAssumption
<1> QED
  BY <1>1, <1>2 DEF ActiveHold, DirectionLeft, AllHeld

\* A press whose release was lost ends the old hold (CommandRelay).
LEMMA TouchPressInv ==
    ASSUME HoldInv, NEW c \in Connections, TouchPress(c)
    PROVE  HoldInv'
<1>1. /\ CancelsHolds(c, ActiveHold(c, dir[c]), {}) /\ Lane!Withdraw(Tagged(c, ActiveHold(c, dir[c])))
      /\ UNCHANGED <<live, accepted, runVars, connVars, authorized>> /\ ResetRelay(c)
  BY DEF TouchPress, StopsHolds
<1> QED
  BY <1>1, RelayForgets, ActiveHoldIsAll, HoldsStopInv

\* A turn stops the hold of the direction that is left.
LEMMA TouchTurnsInv ==
    ASSUME HoldInv, NEW c \in Connections, NEW d \in Keys \cup {NoKey}, TouchTurns(c, d)
    PROVE  HoldInv'
<1>1. /\ CancelsHolds(c, ActiveHold(c, d), {}) /\ Lane!Withdraw(Tagged(c, ActiveHold(c, d)))
      /\ UNCHANGED <<live, accepted, runVars, connVars, authorized>>
      /\ dir' = [dir EXCEPT ![c] = d] /\ active' = [active EXCEPT ![c] = FALSE]
      /\ wasActive' = wasActive
  BY DEF TouchTurns, StopsHolds
<1>2. /\ dir' \in [Connections -> Keys \cup {NoKey}]
      /\ active' \in [Connections -> BOOLEAN] /\ wasActive' \in [Connections -> BOOLEAN]
  BY <1>1 DEF HoldInv, TypeOK
<1>3. \A e \in Connections \ {c} : dir'[e] = dir[e] /\ active'[e] = active[e]
  BY <1>1 DEF HoldInv, TypeOK
<1>4. active'[c] = FALSE
  BY <1>1 DEF HoldInv, TypeOK
<1>5. RelayShape'
  BY <1>1, <1>3, <1>4 DEF HoldInv, RelayShape
<1>6. /\ ActiveHold(c, d) \in SUBSET AllHeld(c)
      /\ \A k \in Keys : held[c][k] # 0 => held[c][k] \in ActiveHold(c, d)
  BY ActiveHoldIsAll
<1> DEFINE G == ActiveHold(c, d)
<1>7. /\ G \in SUBSET AllHeld(c) /\ CancelsHolds(c, G, {}) /\ Lane!Withdraw(Tagged(c, G))
      /\ \A k \in Keys : held[c][k] # 0 => held[c][k] \in G
      /\ UNCHANGED <<live, accepted, runVars, connVars, authorized>>
  BY <1>1, <1>6
<1> HIDE DEF G
<1> QED
  BY <1>2, <1>3, <1>5, <1>7, HoldsStopInv

\* The touch session ends every hold of its connection (_touchStop).
LEMMA TouchStopInv ==
    ASSUME HoldInv, NEW c \in Connections, TouchStop(c)
    PROVE  HoldInv'
<1>1. /\ CancelsHolds(c, AllHeld(c), {}) /\ Lane!Withdraw(Tagged(c, AllHeld(c)))
      /\ UNCHANGED <<live, accepted, runVars, connVars, authorized>> /\ UNCHANGED relayVars
  BY DEF TouchStop, StopsHolds
<1>2. /\ dir' \in [Connections -> Keys \cup {NoKey}]
      /\ active' \in [Connections -> BOOLEAN] /\ wasActive' \in [Connections -> BOOLEAN]
      /\ dir' = dir /\ active' = active /\ RelayShape'
  BY <1>1 DEF HoldInv, TypeOK, relayVars, RelayShape
<1>3. \A k \in Keys : held[c][k] # 0 => held[c][k] \in AllHeld(c)
  BY DEF AllHeld
<1> QED
  BY <1>1, <1>2, <1>3, HoldsStopInv

\* The task's finally clause.
LEMMA TaskEndsInv ==
    ASSUME HoldInv, NEW c \in Connections, NEW g \in Holds, task[c][g] # "none", TaskEnds(c, g),
           UNCHANGED <<relayVars, runVars, connVars, authorized>>
    PROVE  HoldInv'
<1> DEFINE mine == {g} \cap AllHeld(c)
<1>1. /\ CancelsHolds(c, mine, {g}) /\ Lane!Withdraw(Tagged(c, mine))
      /\ UNCHANGED <<live, accepted, runVars, connVars, authorized>>
  BY DEF TaskEnds
<1>2. /\ dir' \in [Connections -> Keys \cup {NoKey}]
      /\ active' \in [Connections -> BOOLEAN] /\ wasActive' \in [Connections -> BOOLEAN]
      /\ dir' = dir /\ active' = active /\ RelayShape'
  BY DEF HoldInv, TypeOK, relayVars, RelayShape
<1>3. \A k \in Keys : held[c][k] # 0 => active'[c] /\ dir'[c] = k
  BY <1>2 DEF HoldInv, HandlesAgree
<1>4. mine \in SUBSET AllHeld(c) /\ (Repeating(c, g) => g \in mine)
  BY DEF Repeating
<1> HIDE DEF mine
<1> QED
  BY <1>1, <1>2, <1>3, <1>4, HoldsStopInv

\* The cap of a hold (HoldRepeater._run).
LEMMA RepeatCappedInv ==
    ASSUME HoldInv, NEW c \in Connections, NEW g \in Holds, RepeatCapped(c, g)
    PROVE  HoldInv'
BY TaskEndsInv DEF RepeatCapped

-----------------------------------------------------------------------------
(* Frames and repeat tasks that submit.                                     *)

\* The newest command of the lane.
LEMMA AcceptFacts ==
    ASSUME HoldInv, NEW c \in Connections, session[c] # NoOwner, accepted < MaxCommands,
           NEW g \in Holds \cup {NoGeneration}, NEW Q \in SUBSET pending,
           pending' = Q \cup {NewCommand(session[c], g)}, accepted' = accepted + 1
    PROVE  /\ LaneNumbered' /\ accepted' \in 0..MaxCommands /\ pending' \subseteq Lane!Command
           /\ NewCommand(session[c], g).owner = session[c]
           /\ NewCommand(session[c], g).owner[1] = c /\ NewCommand(session[c], g).gen = g
<1>1. PICK x : x = NewCommand(session[c], g)
  OBVIOUS
<1>2. x.number = accepted + 1 /\ x.owner = session[c] /\ x.gen = g /\ x.text = FALSE
  BY <1>1 DEF NewCommand
<1>3. session[c] \in Owners /\ session[c][1] = c
  BY DEF HoldInv, TypeOK, SessionShape
<1>4. accepted \in Nat /\ accepted' \in 1..MaxCommands
  BY HoldAssumption DEF HoldInv, TypeOK, HoldAssumption
<1>5. x \in Lane!Command
  BY <1>1, <1>3, <1>4 DEF NewCommand, Lane!Command
<1>6. pending' \subseteq Lane!Command
  BY <1>1, <1>5 DEF HoldInv, TypeOK
<1>7. \A y \in pending : y.number \in Nat /\ y.number <= accepted
  BY CommandFacts DEF HoldInv, LaneNumbered
<1>8. \A y, z \in pending : y.number = z.number => y = z
  BY DEF HoldInv, LaneNumbered
<1>9. LaneNumbered'
  BY <1>1, <1>2, <1>4, <1>7, <1>8 DEF LaneNumbered
<1> QED
  BY <1>1, <1>2, <1>3, <1>4, <1>6, <1>9

\* A click, or nothing when the lane refuses it.
LEMMA SubmitsInv ==
    ASSUME HoldInv, NEW c \in Connections, Submits(c),
           UNCHANGED <<holdVars, runVars, connVars, authorized>>,
           dir' \in [Connections -> Keys \cup {NoKey}],
           active' \in [Connections -> BOOLEAN], wasActive' \in [Connections -> BOOLEAN],
           RelayShape',
           \A d \in Connections, k \in Keys : held[d][k] # 0 => active'[d] /\ dir'[d] = k
    PROVE  HoldInv'
<1>1. PICK x : x = NewCommand(session[c], NoGeneration)
  OBVIOUS
<1>2. /\ UNCHANGED <<live, atTV, delivered>>
      /\ \/ /\ session[c] # NoOwner /\ pending' = pending \cup {x} /\ accepted' = accepted + 1
            /\ accepted < MaxCommands
         \/ pending' = pending /\ accepted' = accepted
  BY <1>1 DEF Submits, Lane!Accept, Takes, laneVars
<1>3. /\ LaneNumbered' /\ accepted' \in 0..MaxCommands /\ pending' \subseteq Lane!Command
      /\ \/ pending' = pending
         \/ /\ session[c] # NoOwner /\ x.owner = session[c] /\ x.owner[1] = c /\ x.gen = NoGeneration
            /\ pending' = pending \cup {x}
  <2>1. CASE pending' = pending /\ accepted' = accepted
    BY <2>1 DEF HoldInv, TypeOK, LaneNumbered
  <2>2. CASE /\ session[c] # NoOwner /\ pending' = pending \cup {x} /\ accepted' = accepted + 1
             /\ accepted < MaxCommands
    BY <1>1, <2>2, AcceptFacts
  <2> QED
    BY <1>2, <2>1, <2>2
<1>4. /\ held' = held /\ repeatOwner' = repeatOwner /\ task' = task /\ holds' = holds
      /\ answer' = answer /\ repeats' = repeats /\ conn' = conn /\ sessions' = sessions
      /\ session' = session /\ authorized' = authorized
  BY DEF holdVars, runVars, connVars
<1>5. TypeOK'
  BY <1>2, <1>3, <1>4 DEF HoldInv, TypeOK
<1>6. SessionShape' /\ HoldsFresh'
  BY <1>4 DEF HoldInv, SessionShape, HoldsFresh
<1>7. RepeatAwaited'
  BY <1>3, <1>4 DEF HoldInv, RepeatAwaited
<1>8. \A d, g : Repeating(d, g)' <=> Repeating(d, g)
  BY <1>4 DEF Repeating, AllHeld
<1>9. RepeatHasHold'
  BY <1>3, <1>8 DEF HoldInv, RepeatHasHold
<1>10. WorkHasSession'
  <2>1. session[c] # NoOwner => conn[c] = "open"
    BY DEF HoldInv, SessionShape
  <2> QED
    BY <1>3, <1>4, <2>1 DEF HoldInv, WorkHasSession
<1>11. HandlesAgree'
  BY <1>4, <1>8 DEF HoldInv, HandlesAgree
<1> QED
  BY <1>3, <1>5, <1>6, <1>7, <1>9, <1>10, <1>11 DEF HoldInv

\* A click of a session.
LEMMA ButtonInv ==
    ASSUME HoldInv, NEW c \in Connections, Button(c)
    PROVE  HoldInv'
<1>1. /\ dir' \in [Connections -> Keys \cup {NoKey}]
      /\ active' \in [Connections -> BOOLEAN] /\ wasActive' \in [Connections -> BOOLEAN]
      /\ dir' = dir /\ active' = active /\ RelayShape'
  BY DEF HoldInv, TypeOK, relayVars, RelayShape, Button
<1>2. \A d \in Connections, k \in Keys : held[d][k] # 0 => active'[d] /\ dir'[d] = k
  BY <1>1 DEF HoldInv, HandlesAgree
<1> QED
  BY <1>1, <1>2, SubmitsInv DEF Button

\* A gesture that emits its swipe on release never was a hold.
LEMMA TouchReleaseInv ==
    ASSUME HoldInv, NEW c \in Connections, TouchRelease(c)
    PROVE  HoldInv'
<1>1. CASE StopsHolds(c, ActiveHold(c, dir[c]))
  <2>1. /\ CancelsHolds(c, ActiveHold(c, dir[c]), {})
        /\ Lane!Withdraw(Tagged(c, ActiveHold(c, dir[c])))
        /\ UNCHANGED <<live, accepted, runVars, connVars, authorized>> /\ ResetRelay(c)
    BY <1>1 DEF TouchRelease, StopsHolds
  <2> QED
    BY <2>1, RelayForgets, ActiveHoldIsAll, HoldsStopInv
<1>2. CASE ~wasActive[c] /\ Submits(c) /\ UNCHANGED holdVars
  <2>1. /\ dir' \in [Connections -> Keys \cup {NoKey}]
        /\ active' \in [Connections -> BOOLEAN] /\ wasActive' \in [Connections -> BOOLEAN]
        /\ RelayShape'
        /\ \A d \in Connections \ {c} : dir'[d] = dir[d] /\ active'[d] = active[d]
    BY RelayForgets DEF TouchRelease
  <2>2. \A d \in Connections, k \in Keys : held[d][k] # 0 => active[d] /\ dir[d] = k
    BY DEF HoldInv, HandlesAgree
  <2>3. ~active[c]
    BY <1>2 DEF HoldInv, RelayShape
  <2>4. \A d \in Connections, k \in Keys : held[d][k] # 0 => active'[d] /\ dir'[d] = k
    BY <2>1, <2>2, <2>3
  <2>5. UNCHANGED <<holdVars, runVars, connVars, authorized>>
    BY <1>2 DEF TouchRelease
  <2> QED
    BY <1>2, <2>1, <2>4, <2>5, SubmitsInv
<1> QED
  BY <1>1, <1>2 DEF TouchRelease

\* A hold begins after its click: it is the only one of its connection, with a new generation.
LEMMA TouchDwellsInv ==
    ASSUME HoldInv, NEW c \in Connections, TouchDwells(c)
    PROVE  HoldInv'
<1>1. /\ dir' = dir /\ active' = [active EXCEPT ![c] = TRUE]
      /\ wasActive' = [wasActive EXCEPT ![c] = TRUE]
      /\ dir[c] \in Keys /\ active[c] = FALSE
  BY DEF TouchDwells, HoldInv, TypeOK
<1>2. /\ dir' \in [Connections -> Keys \cup {NoKey}]
      /\ active' \in [Connections -> BOOLEAN] /\ wasActive' \in [Connections -> BOOLEAN]
  BY <1>1 DEF HoldInv, TypeOK
<1>3. \A d \in Connections \ {c} : active'[d] = active[d] /\ wasActive'[d] = wasActive[d]
  BY <1>1 DEF HoldInv, TypeOK
<1>4. active'[c] /\ wasActive'[c]
  BY <1>1 DEF HoldInv, TypeOK
<1>5. RelayShape'
  BY <1>3, <1>4 DEF HoldInv, RelayShape
<1>6. \A d \in Connections, k \in Keys : held[d][k] # 0 => active'[d] /\ dir'[d] = k
  BY <1>1, <1>3, <1>4 DEF HoldInv, HandlesAgree
<1>7. AllHeld(c) = {} /\ \A k \in Keys : held[c][k] = 0
  BY <1>1 DEF HoldInv, HandlesAgree, AllHeld
<1>8. UNCHANGED <<live, answer, repeats, connVars, authorized>>
  BY DEF TouchDwells
<1>9. CASE ~(session[c] # NoOwner /\ Takes(session[c]))
  <2>1. UNCHANGED <<pending, atTV, delivered, accepted, holdVars, holds>>
    BY <1>9 DEF TouchDwells
  <2>2. Submits(c) /\ UNCHANGED <<holdVars, runVars, connVars, authorized>>
    BY <1>8, <1>9, <2>1 DEF Submits, laneVars, runVars
  <2> QED
    BY <1>2, <1>5, <1>6, <2>2, SubmitsInv
<1>10. CASE session[c] # NoOwner /\ Takes(session[c])
  <2> DEFINE g == holds[c] + 1
             x == NewCommand(session[c], NoGeneration)
  <2>1. AllHeld(c) \ {held[c][dir[c]]} = {} /\ held[c][dir[c]] = 0 /\ Tagged(c, {}) = {}
    BY <1>1, <1>7 DEF Tagged
  <2>2. HoldStarts(c, dir[c])
    BY <1>10 DEF TouchDwells
  <2>3. /\ accepted' = accepted + 1 /\ pending' = pending \cup {x}
        /\ atTV' = atTV /\ delivered' = delivered
        /\ holds[c] < MaxHolds /\ holds' = [holds EXCEPT ![c] = g]
        /\ held' = [held EXCEPT ![c] = [k \in Keys |-> IF k = dir[c] THEN g ELSE 0]]
        /\ repeatOwner' = [repeatOwner EXCEPT ![c] = [h \in Holds |->
              IF h = g THEN session[c] ELSE @[h]]]
        /\ task' = [task EXCEPT ![c] = [h \in Holds |->
              IF h = g THEN "sleeping" ELSE @[h]]]
    <3>1. atTV' = atTV
      BY <2>1, <2>2 DEF HoldStarts, HoldInv, TypeOK
    <3> QED
      BY <2>1, <2>2, <3>1 DEF HoldStarts
  <2>4. g \in Holds /\ g \in 0..MaxHolds /\ g # 0 /\ holds[c] \in Nat
    BY <2>3, HoldAssumption DEF HoldInv, TypeOK, Holds, HoldAssumption
  <2>5. session[c] \in Owners /\ session[c] # NoOwner /\ conn[c] = "open" /\ accepted < MaxCommands
    BY <1>10 DEF HoldInv, TypeOK, SessionShape, Takes
  <2>6. /\ LaneNumbered' /\ accepted' \in 0..MaxCommands /\ pending' \subseteq Lane!Command
        /\ x.owner = session[c] /\ x.owner[1] = c /\ x.gen = NoGeneration
    BY <2>3, <2>5, AcceptFacts
  <2> HIDE DEF g, x
  <2>7. /\ holds' \in [Connections -> 0..MaxHolds]
        /\ held' \in [Connections -> [Keys -> Holds \cup {0}]]
        /\ repeatOwner' \in [Connections -> [Holds -> Owners \cup {NoOwner}]]
        /\ task' \in [Connections ->
              [Holds -> {"none", "sleeping", "sending", "cancelled", "ended"}]]
    <3>1. holds' \in [Connections -> 0..MaxHolds]
      BY <2>3, <2>4 DEF HoldInv, TypeOK
    <3>2. held' \in [Connections -> [Keys -> Holds \cup {0}]]
      BY <2>3, <2>4 DEF HoldInv, TypeOK
    <3>3. repeatOwner' \in [Connections -> [Holds -> Owners \cup {NoOwner}]]
      BY <2>3, <2>5 DEF HoldInv, TypeOK
    <3>4. task' \in [Connections ->
              [Holds -> {"none", "sleeping", "sending", "cancelled", "ended"}]]
      BY <2>3 DEF HoldInv, TypeOK
    <3> QED
      BY <3>1, <3>2, <3>3, <3>4
  <2>8. TypeOK'
    BY <1>1, <1>2, <1>8, <2>3, <2>6, <2>7 DEF HoldInv, TypeOK, connVars
  <2>9. \A d \in Connections :
           /\ holds'[d] = IF d = c THEN g ELSE holds[d]
           /\ \A k \in Keys : held'[d][k] = IF d = c THEN IF k = dir[c] THEN g ELSE 0 ELSE held[d][k]
           /\ \A h \in Holds :
                 /\ repeatOwner'[d][h] = IF d = c /\ h = g THEN session[c] ELSE repeatOwner[d][h]
                 /\ task'[d][h] = IF d = c /\ h = g THEN "sleeping" ELSE task[d][h]
    BY <2>3 DEF HoldInv, TypeOK
  <2>10. \A d \in Connections, h \in Holds :
            Repeating(d, h)' <=> Repeating(d, h) \/ (d = c /\ h = g)
    <3> SUFFICES ASSUME NEW d \in Connections, NEW h \in Holds
                 PROVE  Repeating(d, h)' <=> Repeating(d, h) \/ (d = c /\ h = g)
      OBVIOUS
    <3>1. h # 0
      BY DEF Holds
    <3>2. Repeating(d, h) <=> \E k \in Keys : held[d][k] = h
      BY <3>1 DEF Repeating, AllHeld
    <3>3. Repeating(d, h)' <=> \E k \in Keys : held'[d][k] = h
      BY <3>1 DEF Repeating, AllHeld
    <3> QED
      BY <1>1, <1>7, <2>9, <3>1, <3>2, <3>3
  <2>11. task[c][g] = "none"
    BY <2>4, HoldAssumption DEF HoldInv, HoldsFresh, g
  <2>12. HoldsFresh'
    <3> SUFFICES ASSUME NEW d \in Connections, NEW h \in Holds, holds'[d] < h
                 PROVE  task'[d][h] = "none"
      BY DEF HoldsFresh
    <3>1. holds[d] < h /\ ~(d = c /\ h = g) /\ h \in Nat
      BY <2>4, <2>9 DEF Holds, g, HoldInv, TypeOK
    <3> QED
      BY <2>9, <3>1 DEF HoldInv, HoldsFresh
  <2>13. SessionShape'
    BY <1>8 DEF HoldInv, SessionShape, connVars
  <2>14. ASSUME NEW y \in pending', y.gen # NoGeneration
         PROVE  /\ y \in pending /\ task'[y.owner[1]][y.gen] = "sending"
                /\ answer'[y.owner[1]][y.gen] = "none" /\ Repeating(y.owner[1], y.gen)'
    <3>1. y \in pending
      BY <2>3, <2>6, <2>14
    <3>2. /\ task[y.owner[1]][y.gen] = "sending" /\ answer[y.owner[1]][y.gen] = "none"
          /\ Repeating(y.owner[1], y.gen)
      BY <2>14, <3>1 DEF HoldInv, RepeatAwaited, RepeatHasHold
    <3>3. y.owner[1] \in Connections /\ y.gen \in Holds
      BY <2>14, <3>1, CommandFacts DEF HoldInv
    <3> QED
      BY <1>8, <2>9, <2>10, <2>11, <3>1, <3>2, <3>3
  <2>15. RepeatAwaited' /\ RepeatHasHold'
    <3>1. \A y, z \in pending' :
             y.gen # NoGeneration /\ z.gen # NoGeneration /\ y.owner[1] = z.owner[1] => y = z
      BY <2>14 DEF HoldInv, RepeatHasHold
    <3> QED
      BY <2>14, <3>1 DEF RepeatAwaited, RepeatHasHold
  <2>16. WorkHasSession'
    BY <1>8, <2>3, <2>5, <2>6 DEF HoldInv, WorkHasSession, connVars
  <2>17. HandlesAgree'
    <3>1. ASSUME NEW d \in Connections, NEW h \in Holds
          PROVE  /\ Repeating(d, h)' <=> task'[d][h] \in {"sleeping", "sending"}
                 /\ Repeating(d, h)' => repeatOwner'[d][h] = session'[d] /\ session'[d] # NoOwner
                 /\ ~Repeating(d, h)' => repeatOwner'[d][h] = NoOwner
      <4>1. /\ Repeating(d, h) <=> task[d][h] \in {"sleeping", "sending"}
            /\ Repeating(d, h) => repeatOwner[d][h] = session[d] /\ session[d] # NoOwner
            /\ ~Repeating(d, h) => repeatOwner[d][h] = NoOwner
        BY DEF HoldInv, HandlesAgree
      <4> QED
        BY <1>8, <2>5, <2>9, <2>10, <4>1 DEF connVars
    <3>2. ASSUME NEW d \in Connections, NEW k \in Keys, held'[d][k] # 0
          PROVE  active'[d] /\ dir'[d] = k
      BY <1>1, <1>4, <1>6, <2>9, <3>2
    <3> QED
      BY <3>1, <3>2 DEF HandlesAgree
  <2> QED
    BY <1>5, <2>6, <2>8, <2>12, <2>13, <2>15, <2>16, <2>17 DEF HoldInv
<1> QED
  BY <1>9, <1>10

\* A repeat: its hold is the current one, and has none in the lane while its task sleeps.
LEMMA RepeatSendsInv ==
    ASSUME HoldInv, NEW c \in Connections, NEW g \in Holds, RepeatSends(c, g)
    PROVE  HoldInv'
<1>1. task[c][g] = "sleeping" /\ UNCHANGED <<relayVars, holds, connVars, authorized>>
      /\ repeats[c][g] < MaxRepeats
  BY DEF RepeatSends, BelowCap
<1>2. CASE ~(repeatOwner[c][g] # NoOwner /\ Takes(repeatOwner[c][g]))
  <2>1. TaskEnds(c, g) /\ UNCHANGED <<answer, repeats>>
    BY <1>2 DEF RepeatSends
  <2>2. UNCHANGED <<relayVars, runVars, connVars, authorized>>
    BY <1>1, <2>1 DEF runVars
  <2> QED
    BY <1>1, <2>1, <2>2, TaskEndsInv
<1>3. CASE repeatOwner[c][g] # NoOwner /\ Takes(repeatOwner[c][g])
  <2>1. Repeating(c, g) /\ repeatOwner[c][g] = session[c] /\ session[c] # NoOwner
        /\ conn[c] = "open"
    BY <1>1 DEF HoldInv, HandlesAgree, SessionShape
  <2> DEFINE x == NewCommand(session[c], g)
  <2>2. /\ accepted' = accepted + 1 /\ Lane!Accept(x)
        /\ task' = [task EXCEPT ![c][g] = "sending"]
        /\ answer' = [answer EXCEPT ![c][g] = "none"]
        /\ repeats' = [repeats EXCEPT ![c][g] = @ + 1]
        /\ UNCHANGED <<held, repeatOwner>>
    BY <1>3, <2>1 DEF RepeatSends, AwaitsAnswer
  <2>3. pending' = pending \cup {x} /\ UNCHANGED <<live, atTV, delivered>>
        /\ accepted < MaxCommands
    BY <1>3, <2>2 DEF Lane!Accept, Takes
  <2>4. /\ LaneNumbered' /\ accepted' \in 0..MaxCommands /\ pending' \subseteq Lane!Command
        /\ x.owner = session[c] /\ x.owner[1] = c /\ x.gen = g
    BY <2>1, <2>2, <2>3, AcceptFacts
  <2> HIDE DEF x
  <2>5. /\ task' \in [Connections ->
              [Holds -> {"none", "sleeping", "sending", "cancelled", "ended"}]]
        /\ answer' \in [Connections -> [Holds -> {"none", "done", "failed", "cancelled"}]]
        /\ repeats' \in [Connections -> [Holds -> 0..MaxRepeats]]
    BY <1>1, <2>2, HoldAssumption DEF HoldInv, TypeOK, HoldAssumption
  <2>6. TypeOK'
    BY <1>1, <2>2, <2>3, <2>4, <2>5 DEF HoldInv, TypeOK, connVars, relayVars
  <2>7. \A d \in Connections, h \in Holds :
           /\ task'[d][h] = IF d = c /\ h = g THEN "sending" ELSE task[d][h]
           /\ answer'[d][h] = IF d = c /\ h = g THEN "none" ELSE answer[d][h]
    BY <2>2 DEF HoldInv, TypeOK
  <2>8. \A d, h : Repeating(d, h)' <=> Repeating(d, h)
    BY <2>2 DEF Repeating, AllHeld
  <2>9. \A y \in pending : y.gen # NoGeneration => y.owner[1] # c
    <3> SUFFICES ASSUME NEW y \in pending, y.gen # NoGeneration, y.owner[1] = c
                 PROVE  FALSE
      OBVIOUS
    <3>1. Repeating(c, y.gen) /\ task[c][y.gen] = "sending"
      BY DEF HoldInv, RepeatHasHold, RepeatAwaited
    <3>2. y.gen = g
      BY <2>1, <3>1, OneHold DEF Repeating
    <3> QED
      BY <1>1, <3>1, <3>2
  <2>10. ASSUME NEW y \in pending', y.gen # NoGeneration
         PROVE  /\ task'[y.owner[1]][y.gen] = "sending" /\ answer'[y.owner[1]][y.gen] = "none"
                /\ Repeating(y.owner[1], y.gen)'
    <3>1. CASE y = x
      BY <2>1, <2>4, <2>7, <2>8, <3>1
    <3>2. CASE y \in pending
      <4>1. /\ task[y.owner[1]][y.gen] = "sending" /\ answer[y.owner[1]][y.gen] = "none"
            /\ Repeating(y.owner[1], y.gen)
        BY <2>10, <3>2 DEF HoldInv, RepeatAwaited, RepeatHasHold
      <4>2. y.owner[1] \in Connections /\ y.gen \in Holds
        BY <2>10, <3>2, CommandFacts DEF HoldInv
      <4> QED
        BY <2>7, <2>8, <4>1, <4>2
    <3> QED
      BY <2>3, <3>1, <3>2
  <2>11. RepeatAwaited' /\ RepeatHasHold'
    <3>1. \A y, z \in pending' :
             y.gen # NoGeneration /\ z.gen # NoGeneration /\ y.owner[1] = z.owner[1] => y = z
      BY <2>3, <2>4, <2>9 DEF HoldInv, RepeatHasHold
    <3> QED
      BY <2>10, <3>1 DEF RepeatAwaited, RepeatHasHold
  <2>12. SessionShape' /\ RelayShape'
    BY <1>1 DEF HoldInv, SessionShape, RelayShape, connVars, relayVars
  <2>13. HoldsFresh'
    BY <1>1, <2>7 DEF HoldInv, HoldsFresh
  <2>14. WorkHasSession'
    BY <1>1, <2>1, <2>3, <2>4 DEF HoldInv, WorkHasSession, connVars
  <2>15. HandlesAgree'
    BY <1>1, <2>1, <2>2, <2>7, <2>8 DEF HoldInv, HandlesAgree, connVars, relayVars
  <2> QED
    BY <2>4, <2>6, <2>11, <2>12, <2>13, <2>14, <2>15 DEF HoldInv
<1> QED
  BY <1>2, <1>3

\* A task whose repeat was answered has none in the lane.
LEMMA RepeatAnsweredInv ==
    ASSUME HoldInv, NEW c \in Connections, NEW g \in Holds, RepeatAnswered(c, g)
    PROVE  HoldInv'
<1>1. task[c][g] = "sending" /\ answer[c][g] # "none"
      /\ UNCHANGED <<relayVars, runVars, connVars, authorized>>
  BY DEF RepeatAnswered
<1>2. CASE answer[c][g] # "done"
  BY <1>1, <1>2, TaskEndsInv DEF RepeatAnswered
<1>3. CASE answer[c][g] = "done"
  <2>1. task' = [task EXCEPT ![c][g] = "sleeping"] /\ UNCHANGED <<laneVars, held, repeatOwner>>
    BY <1>3 DEF RepeatAnswered
  <2>2. TypeOK'
    BY <1>1, <2>1 DEF HoldInv, TypeOK, laneVars, relayVars, runVars, connVars
  <2>3. \A d \in Connections, h \in Holds :
           task'[d][h] = IF d = c /\ h = g THEN "sleeping" ELSE task[d][h]
    BY <2>1 DEF HoldInv, TypeOK
  <2>4. \A d, h : Repeating(d, h)' <=> Repeating(d, h)
    BY <2>1 DEF Repeating, AllHeld
  <2>5. LaneNumbered' /\ SessionShape' /\ RelayShape' /\ WorkHasSession'
    BY <1>1, <2>1 DEF HoldInv, LaneNumbered, SessionShape, RelayShape, WorkHasSession, laneVars,
                      connVars, relayVars
  <2>6. RepeatHasHold'
    BY <2>1, <2>4 DEF HoldInv, RepeatHasHold, laneVars
  <2>7. RepeatAwaited'
    <3> SUFFICES ASSUME NEW y \in pending', y.gen # NoGeneration
                 PROVE  task'[y.owner[1]][y.gen] = "sending" /\ answer'[y.owner[1]][y.gen] = "none"
      BY DEF RepeatAwaited
    <3>1. y \in pending
      BY <2>1 DEF laneVars
    <3>2. task[y.owner[1]][y.gen] = "sending" /\ answer[y.owner[1]][y.gen] = "none"
      BY <3>1 DEF HoldInv, RepeatAwaited
    <3>3. y.owner[1] \in Connections /\ y.gen \in Holds
      BY <3>1, CommandFacts DEF HoldInv
    <3> QED
      BY <1>1, <2>3, <3>2, <3>3 DEF runVars
  <2>8. HoldsFresh'
    BY <1>1, <2>3 DEF HoldInv, HoldsFresh, runVars
  <2>9. HandlesAgree'
    BY <1>1, <2>1, <2>3, <2>4 DEF HoldInv, HandlesAgree, connVars, relayVars
  <2> QED
    BY <2>2, <2>5, <2>6, <2>7, <2>8, <2>9 DEF HoldInv
<1> QED
  BY <1>2, <1>3

\* The task of a stopped hold ends without touching what is held now.
LEMMA RepeatCancelledInv ==
    ASSUME HoldInv, NEW c \in Connections, NEW g \in Holds, RepeatCancelled(c, g)
    PROVE  HoldInv'
<1>1. /\ task[c][g] = "cancelled" /\ task' = [task EXCEPT ![c][g] = "ended"]
      /\ UNCHANGED <<laneVars, relayVars, held, repeatOwner, runVars, connVars, authorized>>
  BY DEF RepeatCancelled
<1>2. TypeOK'
  BY <1>1 DEF HoldInv, TypeOK, laneVars, relayVars, runVars, connVars
<1>3. \A d \in Connections, h \in Holds :
         task'[d][h] = IF d = c /\ h = g THEN "ended" ELSE task[d][h]
  BY <1>1 DEF HoldInv, TypeOK
<1>4. \A d, h : Repeating(d, h)' <=> Repeating(d, h)
  BY <1>1 DEF Repeating, AllHeld
<1>5. LaneNumbered' /\ SessionShape' /\ RelayShape' /\ WorkHasSession'
  BY <1>1 DEF HoldInv, LaneNumbered, SessionShape, RelayShape, WorkHasSession, laneVars,
              connVars, relayVars
<1>6. RepeatHasHold'
  BY <1>1, <1>4 DEF HoldInv, RepeatHasHold, laneVars
<1>7. RepeatAwaited'
  <2> SUFFICES ASSUME NEW y \in pending', y.gen # NoGeneration
               PROVE  task'[y.owner[1]][y.gen] = "sending" /\ answer'[y.owner[1]][y.gen] = "none"
    BY DEF RepeatAwaited
  <2>1. y \in pending
    BY <1>1 DEF laneVars
  <2>2. task[y.owner[1]][y.gen] = "sending" /\ answer[y.owner[1]][y.gen] = "none"
    BY <2>1 DEF HoldInv, RepeatAwaited
  <2>3. y.owner[1] \in Connections /\ y.gen \in Holds
    BY <2>1, CommandFacts DEF HoldInv
  <2> QED
    BY <1>1, <1>3, <2>2, <2>3 DEF runVars
<1>8. HoldsFresh'
  BY <1>1, <1>3 DEF HoldInv, HoldsFresh, runVars
<1>9. HandlesAgree'
  BY <1>1, <1>3, <1>4 DEF HoldInv, HandlesAgree, connVars, relayVars
<1> QED
  BY <1>2, <1>5, <1>6, <1>7, <1>8, <1>9 DEF HoldInv

-----------------------------------------------------------------------------
(* The lane's worker and the pairing state.                                 *)

\* Nothing but what the invariant does not read.
LEMMA OutsideInv ==
    ASSUME HoldInv, UNCHANGED <<pending, accepted, relayVars, holdVars, runVars, connVars>>,
           live' \subseteq Owners, authorized' \subseteq Connections,
           atTV' \in BOOLEAN, delivered' \in 0..MaxCommands
    PROVE  HoldInv'
<1>1. TypeOK'
  BY DEF HoldInv, TypeOK, relayVars, holdVars, runVars, connVars
<1>2. \A d, h : Repeating(d, h)' <=> Repeating(d, h)
  BY DEF Repeating, AllHeld, holdVars
<1>3. LaneNumbered' /\ SessionShape' /\ RelayShape' /\ WorkHasSession' /\ HoldsFresh'
      /\ RepeatAwaited'
  BY DEF HoldInv, LaneNumbered, SessionShape, RelayShape, WorkHasSession, HoldsFresh, RepeatAwaited,
         relayVars, holdVars, runVars, connVars
<1>4. RepeatHasHold' /\ HandlesAgree'
  BY <1>2 DEF HoldInv, RepeatHasHold, HandlesAgree, relayVars, holdVars, runVars, connVars
<1> QED
  BY <1>1, <1>3, <1>4 DEF HoldInv

\* The worker takes the oldest command, and writes it.
LEMMA LaneHandsInv ==
    ASSUME HoldInv, LaneStarts \/ LaneWrites
    PROVE  HoldInv'
<1>1. UNCHANGED <<pending, accepted, relayVars, holdVars, runVars, connVars>>
  BY DEF LaneStarts, LaneWrites, Lane!Start, Lane!Deliver
<1>2. live' \subseteq Owners /\ authorized' \subseteq Connections /\ atTV' \in BOOLEAN
  BY DEF LaneStarts, LaneWrites, Lane!Start, Lane!Deliver, HoldInv, TypeOK
<1>3. delivered' \in 0..MaxCommands
  <2>1. CASE LaneStarts
    BY <2>1 DEF LaneStarts, Lane!Start, HoldInv, TypeOK
  <2>2. CASE LaneWrites
    <3>1. PICK x \in pending : delivered' = x.number
      BY <2>2 DEF LaneWrites, Lane!Deliver
    <3>2. x.number \in 1..MaxCommands
      BY DEF HoldInv, TypeOK, Lane!Command
    <3> QED
      BY <3>1, <3>2, HoldAssumption DEF HoldAssumption
  <2> QED
    BY <2>1, <2>2
<1> QED
  BY <1>1, <1>2, <1>3, OutsideInv

\* A pairing or a revocation touches nothing of a session until the connection is closed.
LEMMA AuthorityInv ==
    ASSUME HoldInv, NEW c \in Connections, AuthorityChanges(c)
    PROVE  HoldInv'
<1>1. /\ UNCHANGED <<pending, accepted, relayVars, holdVars, runVars, connVars>>
      /\ live' \subseteq Owners /\ atTV' \in BOOLEAN /\ delivered' \in 0..MaxCommands
  BY DEF AuthorityChanges, laneVars, HoldInv, TypeOK
<1>2. authorized' \subseteq Connections
  BY DEF AuthorityChanges, HoldInv, TypeOK
<1> QED
  BY <1>1, <1>2, OutsideInv

\* The oldest command leaves with its answer: no other waits for the same one.
LEMMA LaneFinishesInv ==
    ASSUME HoldInv, NEW outcome \in {"done", "failed", "cancelled"}, LaneFinishes(outcome)
    PROVE  HoldInv'
<1>1. PICK x \in pending : /\ Lane!Oldest(x)
                           /\ answer' = IF x.gen = NoGeneration \/ ~Answers(outcome) THEN answer
                                        ELSE [answer EXCEPT ![x.owner[1]][x.gen] = outcome]
  BY DEF LaneFinishes
<1>2. PICK y \in pending : Lane!Oldest(y) /\ pending' = pending \ {y}
  BY DEF LaneFinishes, Lane!Finish
<1>3. y = x
  BY <1>1, <1>2, CommandFacts DEF HoldInv, LaneNumbered, Lane!Oldest
<1>4. /\ pending' = pending \ {x} /\ atTV' = FALSE /\ UNCHANGED <<live, delivered>>
      /\ UNCHANGED <<accepted, relayVars, holdVars, holds, repeats, connVars, authorized>>
  BY <1>2, <1>3 DEF LaneFinishes, Lane!Finish
<1>5. x.owner[1] \in Connections /\ (x.gen = NoGeneration \/ x.gen \in Holds)
  BY CommandFacts DEF HoldInv
<1>6. answer' \in [Connections -> [Holds -> {"none", "done", "failed", "cancelled"}]]
  BY <1>1, <1>5 DEF HoldInv, TypeOK
<1>7. \A d \in Connections, h \in Holds :
         answer'[d][h] # answer[d][h] => d = x.owner[1] /\ h = x.gen /\ x.gen # NoGeneration
  <2>1. CASE answer' = answer
    BY <2>1
  <2>2. CASE x.gen # NoGeneration /\ answer' = [answer EXCEPT ![x.owner[1]][x.gen] = outcome]
    BY <1>5, <2>2 DEF HoldInv, TypeOK
  <2> QED
    BY <1>1, <2>1, <2>2
<1>8. TypeOK'
  BY <1>4, <1>6 DEF HoldInv, TypeOK, relayVars, holdVars, connVars
<1>9. \A d, h : Repeating(d, h)' <=> Repeating(d, h)
  BY <1>4 DEF Repeating, AllHeld, holdVars
<1>10. LaneNumbered' /\ SessionShape' /\ RelayShape' /\ WorkHasSession' /\ HoldsFresh'
  BY <1>4 DEF HoldInv, LaneNumbered, SessionShape, RelayShape, WorkHasSession, HoldsFresh,
              relayVars, holdVars, connVars
<1>11. RepeatAwaited'
  <2> SUFFICES ASSUME NEW z \in pending', z.gen # NoGeneration
               PROVE  task'[z.owner[1]][z.gen] = "sending" /\ answer'[z.owner[1]][z.gen] = "none"
    BY DEF RepeatAwaited
  <2>1. z \in pending /\ z # x
    BY <1>4
  <2>2. task[z.owner[1]][z.gen] = "sending" /\ answer[z.owner[1]][z.gen] = "none"
    BY <2>1 DEF HoldInv, RepeatAwaited
  <2>3. z.owner[1] \in Connections /\ z.gen \in Holds
    BY <2>1, CommandFacts DEF HoldInv
  <2>4. ~(z.owner[1] = x.owner[1] /\ x.gen # NoGeneration)
    BY <2>1 DEF HoldInv, RepeatHasHold
  <2> QED
    BY <1>4, <1>7, <2>2, <2>3, <2>4 DEF holdVars
<1>12. RepeatHasHold' /\ HandlesAgree'
  BY <1>4, <1>9 DEF HoldInv, RepeatHasHold, HandlesAgree, relayVars, holdVars, connVars
<1> QED
  BY <1>8, <1>10, <1>11, <1>12 DEF HoldInv

-----------------------------------------------------------------------------
(* The invariant, and what follows.                                         *)

\* Nothing is held and nothing queued.
LEMMA HoldInit == Init => HoldInv
<1> SUFFICES ASSUME Init PROVE HoldInv
  OBVIOUS
<1> USE HoldAssumption DEF HoldAssumption, Init, Lane!Init
<1>1. TypeOK
  <2>1. 0 \in 0..MaxSessions /\ 0 \in 0..MaxHolds /\ 0 \in 0..MaxRepeats /\ 0 \in 0..MaxCommands
    OBVIOUS
  <2>2. [c \in Connections |-> [k \in Keys |-> 0]] \in [Connections -> [Keys -> Holds \cup {0}]]
    OBVIOUS
  <2>3. [c \in Connections |-> [g \in Holds |-> 0]] \in [Connections -> [Holds -> 0..MaxRepeats]]
    BY <2>1
  <2> QED
    BY <2>1, <2>2, <2>3 DEF TypeOK
<1>2. LaneNumbered /\ SessionShape /\ RelayShape /\ RepeatAwaited /\ HoldsFresh
      /\ WorkHasSession /\ RepeatHasHold
  BY DEF LaneNumbered, SessionShape, RelayShape, RepeatAwaited, HoldsFresh, WorkHasSession,
         RepeatHasHold
<1>3. HandlesAgree
  BY DEF HandlesAgree, Repeating, AllHeld
<1> QED
  BY <1>1, <1>2, <1>3 DEF HoldInv

\* Every step keeps the invariant.
LEMMA HoldNext == HoldInv /\ [Next]_vars => HoldInv'
<1> SUFFICES ASSUME HoldInv, [Next]_vars PROVE HoldInv'
  OBVIOUS
<1>1. ASSUME NEW c \in Connections, Frame(c) PROVE HoldInv'
  BY <1>1, SessionStartInv, SessionStopInv, ButtonInv, TouchPressInv, TouchDwellsInv,
     TouchReleaseInv, TouchStopInv, TouchTurnsInv DEF Frame
<1>2. ASSUME NEW c \in Connections, NEW g \in Holds, RepeatTask(c, g) PROVE HoldInv'
  BY <1>2, RepeatCappedInv, RepeatRevokedInv, RepeatSendsInv, RepeatAnsweredInv, RepeatCancelledInv
     DEF RepeatTask
<1>3. ASSUME NEW c \in Connections, Close(c) \/ ConnectionLost(c) \/ AuthorityChanges(c)
      PROVE  HoldInv'
  BY <1>3, DisconnectInv, AuthorityInv
<1>4. CASE LaneWorker \/ LaneWrites
  BY <1>4, LaneHandsInv, LaneFinishesInv DEF LaneWorker
<1>5. CASE UNCHANGED vars
  BY <1>5, OutsideInv DEF vars, laneVars, HoldInv, TypeOK
<1> QED
  BY <1>1, <1>2, <1>3, <1>4, <1>5 DEF Next

\* Phones, frames, repeat tasks and the lane in any order (BridgeCompanionService, HoldRepeater).
LEMMA HoldInvariant == Spec => []HoldInv
BY HoldInit, HoldNext, PTL DEF Spec

\* The types of every variable, in every reachable state (companion/server.py, repeater.py).
THEOREM HoldTypeCorrect == Spec => []TypeOK
<1>1. HoldInv => TypeOK
  BY DEF HoldInv
<1> QED
  BY <1>1, HoldInvariant, PTL

\* No path out of a session, and no restart of one, leaves work in the lane
\* (_end_dispatch_session, handle_tvrcsessionstart, connection_lost).
THEOREM NoWorkWithoutSession == Spec => []WorkHasSession
<1>1. HoldInv => WorkHasSession
  BY DEF HoldInv
<1> QED
  BY <1>1, HoldInvariant, PTL

\* A repeat never outlives its hold, and never has company (HoldRepeater._run, cancel_generation).
THEOREM NoRepeatWithoutHold == Spec => []RepeatHasHold
<1>1. HoldInv => RepeatHasHold
  BY DEF HoldInv
<1> QED
  BY <1>1, HoldInvariant, PTL

\* Handles, owners, tasks and the relay agree on what is held (HoldRepeater, CommandRelay).
THEOREM NoHoldByItself == Spec => []HandlesAgree
<1>1. HoldInv => HandlesAgree
  BY DEF HoldInv
<1> QED
  BY <1>1, HoldInvariant, PTL

-----------------------------------------------------------------------------
(* What leaves the lane.                                                    *)

\* Why a command may leave in a step.
MayLeave(x) ==
    LET c == x.owner[1]
    IN  \/ atTV /\ Lane!Oldest(x)
        \/ session'[c] # x.owner
        \/ x.gen # NoGeneration /\ \A k \in Keys : held'[c][k] # x.gen

\* The end of holds removes repeats of these holds only.
LEMMA HoldsStopOwn ==
    ASSUME HoldInv, NEW c \in Connections, NEW G \in SUBSET AllHeld(c), NEW ending \in SUBSET Holds,
           CancelsHolds(c, G, ending), Lane!Withdraw(Tagged(c, G)),
           NEW x \in pending \ pending'
    PROVE  MayLeave(x)
<1>1. x \in Tagged(c, G)
  BY DEF Lane!Withdraw
<1>2. x.owner[1] = c /\ x.gen \in G /\ x.gen # NoGeneration
  BY <1>1, TaggedOwn
<1>3. HoldsStopped(c, G, ending)
  BY CancelledHolds, OneHold DEF HoldInv
<1>4. \A k \in Keys : held'[c][k] = IF held[c][k] \in G THEN 0 ELSE held[c][k]
  BY <1>3 DEF HoldsStopped
<1> QED
  BY <1>2, <1>4 DEF MayLeave, NoGeneration

\* The end of a session removes the work of that session only.
LEMMA SessionEndsOwn ==
    ASSUME HoldInv, NEW c \in Connections, NEW ending,
           EndsSession(c, ending), session'[c] # session[c],
           NEW x \in pending \ pending'
    PROVE  MayLeave(x)
<1>1. x \in Tagged(c, AllHeld(c)) \/ x.owner = session[c]
  BY DEF EndsSession, Lane!Withdraw
<1>2. x.owner[1] = c
  <2>1. CASE x \in Tagged(c, AllHeld(c))
    BY <2>1, TaggedOwn
  <2>2. CASE x.owner = session[c]
    BY <2>2, CommandFacts DEF HoldInv, SessionShape
  <2> QED
    BY <1>1, <2>1, <2>2
<1>3. x.owner = session[c]
  BY <1>2 DEF HoldInv, WorkHasSession
<1> QED
  BY <1>2, <1>3 DEF MayLeave

\* So does an end that leaves the connection without a session.
LEMMA SessionGoneOwn ==
    ASSUME HoldInv, NEW c \in Connections, NEW ending,
           EndsSession(c, ending), session' = [session EXCEPT ![c] = NoOwner],
           NEW x \in pending \ pending'
    PROVE  MayLeave(x)
<1>1. session'[c] = NoOwner
  BY DEF HoldInv, TypeOK
<1>2. CASE session[c] # NoOwner
  BY <1>1, <1>2, SessionEndsOwn
<1>3. CASE session[c] = NoOwner
  <2>1. AllHeld(c) = {}
    BY <1>3, OneHold, HoldAssumption DEF HoldAssumption
  <2>2. x.owner = NoOwner
    BY <1>3, <2>1 DEF EndsSession, Lane!Withdraw, Tagged
  <2> QED
    BY <2>2, CommandFacts DEF HoldInv
<1> QED
  BY <1>2, <1>3

\* So does a start: the fresh owner is none that the lane has work for.
LEMMA SessionStartOwn ==
    ASSUME HoldInv, NEW c \in Connections, SessionStart(c), NEW x \in pending \ pending'
    PROVE  MayLeave(x)
<1>1. /\ EndsSession(c, {}) /\ session' = [session EXCEPT ![c] = <<c, sessions[c] + 1>>]
  BY DEF SessionStart
<1>2. session'[c] = <<c, sessions[c] + 1>> /\ sessions[c] \in Nat
  BY <1>1, HoldAssumption DEF HoldInv, TypeOK, HoldAssumption
<1>3. session'[c] # session[c]
  <2>1. CASE session[c] = NoOwner
    <3>1. session'[c] \in Owners \/ session'[c] = NoOwner
      BY SessionStartInv DEF HoldInv, TypeOK
    <3>2. sessions[c] + 1 \in 1..MaxSessions
      BY <1>2, HoldAssumption DEF SessionStart, HoldAssumption
    <3>3. session'[c] \in Owners
      BY <1>2, <3>2 DEF Owners
    <3> QED
      BY <2>1, <3>3, HoldAssumption DEF HoldAssumption
  <2>2. CASE session[c] # NoOwner
    <3>1. session[c][2] <= sessions[c]
      BY <2>2 DEF HoldInv, SessionShape
    <3>2. session'[c][2] = sessions[c] + 1
      BY <1>2
    <3> QED
      BY <1>2, <3>1, <3>2
  <2> QED
    BY <2>1, <2>2
<1> QED
  BY <1>1, <1>3, SessionEndsOwn

\* A task that ends removes repeats of its own hold only.
LEMMA TaskEndsOwn ==
    ASSUME HoldInv, NEW c \in Connections, NEW g \in Holds, TaskEnds(c, g),
           NEW x \in pending \ pending'
    PROVE  MayLeave(x)
<1> DEFINE mine == {g} \cap AllHeld(c)
<1>1. CancelsHolds(c, mine, {g}) /\ Lane!Withdraw(Tagged(c, mine)) /\ mine \in SUBSET AllHeld(c)
  BY DEF TaskEnds
<1> HIDE DEF mine
<1> QED
  BY <1>1, HoldsStopOwn

\* So do the frames that stop holds.
LEMMA StopsHoldsOwn ==
    ASSUME HoldInv, NEW c \in Connections, NEW G \in SUBSET AllHeld(c), StopsHolds(c, G),
           NEW x \in pending \ pending'
    PROVE  MayLeave(x)
BY HoldsStopOwn DEF StopsHolds

\* A submission removes nothing.
LEMMA SubmitsKeeps ==
    ASSUME NEW c, Submits(c)
    PROVE  pending \subseteq pending'
BY DEF Submits, Lane!Accept, laneVars

\* No frame removes what is not its own.
LEMMA FrameOwn ==
    ASSUME HoldInv, NEW c \in Connections, Frame(c), NEW x \in pending \ pending'
    PROVE  MayLeave(x)
<1>1. CASE SessionStart(c)
  BY <1>1, SessionStartOwn
<1>2. CASE SessionStop(c)
  BY <1>2, SessionGoneOwn DEF SessionStop
<1>3. CASE Button(c)
  BY <1>3, SubmitsKeeps DEF Button
<1>4. CASE TouchPress(c)
  BY <1>4, StopsHoldsOwn, ActiveHoldIsAll DEF TouchPress
<1>5. CASE TouchDwells(c)
  <2>1. AllHeld(c) = {}
    BY <1>5 DEF TouchDwells, HoldInv, HandlesAgree, AllHeld
  <2>2. Tagged(c, AllHeld(c) \ {held[c][dir[c]]}) = {}
    BY <2>1 DEF Tagged
  <2>3. pending \subseteq pending'
    BY <1>5, <2>2 DEF TouchDwells, HoldStarts
  <2> QED
    BY <2>3
<1>6. CASE TouchRelease(c)
  BY <1>6, SubmitsKeeps, StopsHoldsOwn, ActiveHoldIsAll DEF TouchRelease
<1>7. CASE TouchStop(c)
  BY <1>7, StopsHoldsOwn DEF TouchStop
<1>8. CASE \E d \in Keys \cup {NoKey} : TouchTurns(c, d)
  BY <1>8, StopsHoldsOwn, ActiveHoldIsAll DEF TouchTurns
<1> QED
  BY <1>1, <1>2, <1>3, <1>4, <1>5, <1>6, <1>7, <1>8 DEF Frame

\* No step of a repeat task does.
LEMMA RepeatTaskOwn ==
    ASSUME HoldInv, NEW c \in Connections, NEW g \in Holds, RepeatTask(c, g),
           NEW x \in pending \ pending'
    PROVE  MayLeave(x)
<1>1. CASE RepeatCapped(c, g)
  BY <1>1, TaskEndsOwn DEF RepeatCapped
<1>2. CASE RepeatRevoked(c, g)
  BY <1>2, SessionGoneOwn DEF RepeatRevoked, Disconnects
<1>3. CASE RepeatSends(c, g)
  BY <1>3, TaskEndsOwn DEF RepeatSends, Lane!Accept
<1>4. CASE RepeatAnswered(c, g)
  BY <1>4, TaskEndsOwn DEF RepeatAnswered, laneVars
<1>5. CASE RepeatCancelled(c, g)
  BY <1>5 DEF RepeatCancelled, laneVars
<1> QED
  BY <1>1, <1>2, <1>3, <1>4, <1>5 DEF RepeatTask

\* No step at all does.
LEMMA StepOwn ==
    ASSUME HoldInv, [Next]_vars, NEW x \in pending \ pending'
    PROVE  MayLeave(x)
<1>1. ASSUME NEW c \in Connections, Close(c) \/ ConnectionLost(c)
      PROVE  MayLeave(x)
  BY <1>1, SessionGoneOwn DEF Close, ConnectionLost, Disconnects
<1>2. ASSUME NEW c \in Connections, AuthorityChanges(c)
      PROVE  MayLeave(x)
  BY <1>2 DEF AuthorityChanges, laneVars
<1>3. CASE LaneStarts \/ LaneWrites \/ UNCHANGED vars
  BY <1>3 DEF LaneStarts, LaneWrites, Lane!Start, Lane!Deliver, vars, laneVars
<1>4. ASSUME NEW outcome, LaneFinishes(outcome)
      PROVE  MayLeave(x)
  BY <1>4 DEF LaneFinishes, Lane!Finish, MayLeave
<1> QED
  BY <1>1, <1>2, <1>3, <1>4, FrameOwn, RepeatTaskOwn DEF Next, LaneWorker

\* No phone's frame, no hold and no task removes another's work (cancel_owner, cancel_generation).
THEOREM OwnWork == Spec => OnlyOwnWorkWithdrawn
<1>1. HoldInv /\ [Next]_vars =>
        [\A x \in pending \ pending' :
          LET c == x.owner[1]
          IN  \/ atTV /\ Lane!Oldest(x)
              \/ session'[c] # x.owner
              \/ x.gen # NoGeneration /\ \A k \in Keys : held'[c][k] # x.gen]_vars
  BY StepOwn DEF MayLeave
<1> QED
  BY <1>1, HoldInvariant, PTL DEF Spec, OnlyOwnWorkWithdrawn
=============================================================================
