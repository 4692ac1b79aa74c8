----------------------------- MODULE TextInput -----------------------------
(***************************************************************************)
(* The keyboard: what the TV's IME events and the phones' RTI messages do  *)
(* to each connection's text session (make_ime_focus_handler, _tiStart,    *)
(* _tiStop, _tiC, FakeCompanionSessionState).                              *)
(*                                                                         *)
(* A character is the number of the TV field it was typed for, as far as   *)
(* the service can tell: the field open when the message arrives, or 0.    *)
(* The TV is external: it opens and closes text fields, and its events     *)
(* reach the service only while the Samsung socket is up.                  *)
(*                                                                         *)
(* Its names begin with Text where a connection's other session,           *)
(* HoldSession, has the same: SessionProofs reasons about both.            *)
(***************************************************************************)
EXTENDS Naturals, Sequences, SequencesExt, FiniteSets

CONSTANTS
    Phones,
    Placeholder,  \* INITIAL_RTI_TEXT
    NoAssert,     \* an operation without a textToAssert
    MaxText,      \* _RTI_MAX_TEXT
    MaxFields     \* bound: the text fields that the TV opens

ASSUME TextInputAssumption == MaxText \in Nat \ {0} /\ MaxFields \in Nat

VARIABLES
    opened,    \* the fields the TV has opened so far
    open,      \* the last of them is open
    up,        \* the Samsung socket
    ended,     \* history: the last field whose imeEnd the service heard
    connected, \* the phone is connected and verified
    uuid,      \* rti_session_uuid is set
    listed,    \* rti_registered
    focus,     \* _rti_focus_state is Focused
    text,      \* rti_text
    shown,     \* the phone's keyboard is up
    seen,      \* the phone's own text while its keyboard is up
    capped     \* history: text lost what is beyond MaxText

tvVars == <<opened, open, up, ended>>
sessionVars == <<uuid, listed, focus, text>>
phoneVars == <<shown, seen, capped>>
textVars == <<tvVars, connected, sessionVars, phoneVars>>

Field == IF open THEN opened ELSE 0

Chars == 0..MaxFields \cup {Placeholder}
Texts == BoundedSeq(Chars, MaxText)

TextTypeOK ==
    /\ opened \in 0..MaxFields /\ open \in BOOLEAN /\ up \in BOOLEAN
    /\ ended \in 0..opened
    /\ connected \in [Phones -> BOOLEAN]
    /\ uuid \in [Phones -> BOOLEAN] /\ listed \in [Phones -> BOOLEAN]
    /\ focus \in [Phones -> BOOLEAN] /\ text \in [Phones -> Texts]
    /\ shown \in [Phones -> BOOLEAN] /\ capped \in [Phones -> BOOLEAN]
    /\ seen \in [Phones -> Texts]

\* FakeCompanionSessionState starts out focused on a placeholder; _tiStart makes it usable.
TextInit ==
    /\ opened = 0 /\ open = FALSE /\ up = TRUE /\ ended = 0
    /\ connected = [p \in Phones |-> FALSE]
    /\ uuid = [p \in Phones |-> FALSE] /\ listed = [p \in Phones |-> FALSE]
    /\ focus = [p \in Phones |-> TRUE] /\ text = [p \in Phones |-> <<Placeholder>>]
    /\ shown = [p \in Phones |-> FALSE] /\ seen = [p \in Phones |-> <<>>]
    /\ capped = [p \in Phones |-> FALSE]

\* active_rti_sessions
Active(p) == connected[p] /\ listed[p] /\ uuid[p]

-----------------------------------------------------------------------------
(* The TV's events.                                                         *)

\* The focus setter for the phones of F: a change is pushed to a registered session, whose phone
\* raises its keyboard with the pushed text or drops it; where the push raises (Broken) the session
\* is no longer registered.
SetFocus(F, value, Broken) ==
    LET changed == {p \in F : focus[p] # value}
        pushed == {p \in changed : listed[p] /\ connected[p]} \ Broken
    IN /\ focus' = [p \in Phones |-> IF p \in F THEN value ELSE focus[p]]
       /\ listed' = [p \in Phones |-> listed[p] /\ p \notin changed \cap Broken]
       /\ shown' = [p \in Phones |-> IF p \in pushed THEN value ELSE shown[p]]
       /\ seen' = [p \in Phones |-> IF p \notin pushed THEN seen[p]
                                    ELSE IF value THEN text'[p] ELSE <<>>]
       /\ capped' = [p \in Phones |-> capped[p] /\ p \notin pushed]

\* faulty: the text of the field before stays
HearsStartKept(Broken) ==
    /\ UNCHANGED text
    /\ SetFocus({p \in Phones : Active(p)}, TRUE, Broken)

\* imeStart: a session that is not focused yet starts with an empty text.
HearsStart(Broken) ==
    /\ text' = [p \in Phones |-> IF Active(p) /\ ~focus[p] THEN <<>> ELSE text[p]]
    /\ SetFocus({p \in Phones : Active(p)}, TRUE, Broken)

\* faulty: the sessions are not told of the end
HearsEndUntold(Broken) == UNCHANGED <<text, focus, listed, phoneVars>>

HearsEnd(Broken) ==
    /\ UNCHANGED text
    /\ SetFocus({p \in Phones : Active(p)}, FALSE, Broken)

\* An event that no socket carries is lost.
Misses == UNCHANGED <<text, focus, listed, phoneVars>>

FieldOpens ==
    /\ ~open /\ opened < MaxFields
    /\ open' = TRUE /\ opened' = opened + 1
    /\ IF up THEN \E Broken \in SUBSET {p \in Phones : Active(p)} : HearsStart(Broken)
             ELSE Misses
    /\ UNCHANGED <<up, ended, connected, uuid>>

FieldCloses ==
    /\ open /\ open' = FALSE
    /\ IF up THEN /\ ended' = opened
                  /\ \E Broken \in SUBSET {p \in Phones : Active(p)} : HearsEnd(Broken)
             ELSE UNCHANGED ended /\ Misses
    /\ UNCHANGED <<opened, up, connected, uuid>>

SocketChanges ==
    /\ up' = ~up
    /\ UNCHANGED <<opened, open, ended, connected, sessionVars, phoneVars>>

-----------------------------------------------------------------------------
(* The phone's messages.                                                    *)

Hides(p) ==
    /\ shown' = [shown EXCEPT ![p] = FALSE]
    /\ seen' = [seen EXCEPT ![p] = <<>>]
    /\ capped' = [capped EXCEPT ![p] = FALSE]

Connects(p) ==
    /\ ~connected[p] /\ connected' = [connected EXCEPT ![p] = TRUE]
    /\ uuid' = [uuid EXCEPT ![p] = FALSE] /\ listed' = [listed EXCEPT ![p] = FALSE]
    /\ focus' = [focus EXCEPT ![p] = TRUE] /\ text' = [text EXCEPT ![p] = <<Placeholder>>]
    /\ Hides(p)
    /\ UNCHANGED tvVars

\* detach; the phone's keyboard goes with its remote.
Detaches(p) ==
    /\ connected[p] /\ connected' = [connected EXCEPT ![p] = FALSE]
    /\ uuid' = [uuid EXCEPT ![p] = FALSE] /\ listed' = [listed EXCEPT ![p] = FALSE]
    /\ focus' = [focus EXCEPT ![p] = FALSE] /\ text' = [text EXCEPT ![p] = <<>>]
    /\ Hides(p)
    /\ UNCHANGED tvVars

\* faulty: a session that starts again keeps its focus
TiStartFocused(p) ==
    /\ connected[p]
    /\ uuid' = [uuid EXCEPT ![p] = TRUE] /\ listed' = [listed EXCEPT ![p] = TRUE]
    /\ text' = [text EXCEPT ![p] = <<>>]
    /\ Hides(p)
    /\ UNCHANGED <<focus, tvVars, connected>>

\* The text is emptied, the focus dropped - which a session that is still registered is told of -
\* and the session registered, whatever came of the push; the phone shows no keyboard.
TiStart(p) ==
    /\ connected[p]
    /\ uuid' = [uuid EXCEPT ![p] = TRUE] /\ listed' = [listed EXCEPT ![p] = TRUE]
    /\ text' = [text EXCEPT ![p] = <<>>]
    /\ focus' = [focus EXCEPT ![p] = FALSE]
    /\ Hides(p)
    /\ UNCHANGED <<tvVars, connected>>

\* Without a session it is only logged; text and focus stay for the next _tiStart.
TiStop(p) ==
    /\ connected[p] /\ uuid[p]
    /\ uuid' = [uuid EXCEPT ![p] = FALSE] /\ listed' = [listed EXCEPT ![p] = FALSE]
    /\ Hides(p)
    /\ UNCHANGED <<focus, text, tvVars, connected>>

\* What one text operation makes of a text: a replacement, then a deletion clamped to what is
\* there, then an insertion.
Edited(old, assert, count, inserted) ==
    LET base == IF assert = NoAssert THEN old ELSE [i \in 1..assert |-> Field]
        kept == SubSeq(base, 1, IF count > Len(base) THEN 0 ELSE Len(base) - count)
    IN IF inserted THEN Append(kept, Field) ELSE kept

Clamped(s) == IF Len(s) > MaxText THEN SubSeq(s, 1, MaxText) ELSE s

\* _tiC, focused or not; a text that differs goes to the lane (DispatchLane).
TiC(p, assert, count, inserted) ==
    /\ connected[p]
    /\ LET result == Edited(text[p], assert, count, inserted)
           own == Edited(seen[p], assert, count, inserted)
       IN /\ text' = [text EXCEPT ![p] = Clamped(result)]
          /\ seen' = [seen EXCEPT ![p] = IF shown[p] THEN Clamped(own) ELSE @]
          /\ capped' = [capped EXCEPT ![p] = @ \/ (shown[p] /\ Len(result) > MaxText)]
    /\ UNCHANGED <<tvVars, connected, uuid, listed, focus, shown>>

Types(p) ==
    \E assert \in {NoAssert, 0, MaxText + 1}, count \in 0..MaxText + 1, inserted \in BOOLEAN :
        TiC(p, assert, count, inserted)

TextNext ==
    \/ FieldOpens \/ FieldCloses \/ SocketChanges
    \/ \E p \in Phones : Connects(p) \/ Detaches(p) \/ TiStart(p) \/ TiStop(p) \/ Types(p)

TextSpec == TextInit /\ [][TextNext]_textVars

-----------------------------------------------------------------------------
(* Properties.                                                              *)

\* What a session may hold that was typed for: the fields since the last imeEnd heard and, once an
\* imeEnd is lost, the time that no field was open.
Recent == (ended + 1)..opened \cup (IF opened > ended + 1 \/ (opened > ended /\ ~open)
                                   THEN {0} ELSE {})

\* A focused session's text holds nothing older than the last imeEnd that the service heard, whatever
\* other events are lost: send_text replaces the whole field, so an old character left in rti_text
\* is written into the new field with the first key (make_ime_focus_handler, handle__tic).  One
\* imeEnd ends what the loss of earlier ones did, and where none was lost only the open field's own
\* text is left.
FreshField == \A p \in Phones : focus[p] /\ Active(p) =>
                 \A i \in DOMAIN text[p] : text[p][i] \in Recent

\* Every imeStart that is heard empties the text: "the PRE-op value (which resets to "" on each
\* imeStart)", the comment in handle__tic.
ResetOnEachStart ==
    [][opened' # opened /\ up => \A p \in Phones : Active(p) => text'[p] = <<>>]_textVars

\* The phone and the service agree: the keyboard is up exactly where the session is focused, and
\* the text the phone edits is the one the service edits, so a deletion that the phone counts takes
\* the same characters off; _tiStart and _tiStop in any order, pushes that fail and fields that come
\* and go do not part them (the rti_focus_state setter, handle__tistart, handle__tistop).
KeyboardAgrees ==
    \A p \in Phones : Active(p) =>
        /\ shown[p] <=> focus[p]
        /\ shown[p] => capped[p] \/ seen[p] = text[p]
=============================================================================
