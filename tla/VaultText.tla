------------------------------ MODULE VaultText ------------------------------
(***************************************************************************)
(* What the vault promises about the texts it keeps, with no key, version, *)
(* wrapping or lock in sight: an entry's text is the last one written to   *)
(* it.  A text is written by one call and has no second writer, so one     *)
(* that comes back after it was replaced is an update that got lost, and   *)
(* one that changes while a key is rotated, or an entry moved or           *)
(* refreshed, is content that was damaged.                                 *)
(***************************************************************************)
CONSTANTS Entry, Text, None

VARIABLES
    text,   \* the text of each entry, or None
    past    \* the texts written so far

vars == <<text, past>>

Init ==
    /\ text \in [Entry -> Text \cup {None}]
    /\ past = {text[e] : e \in Entry} \ {None}

\* One step writes new texts to some entries, and drops others.
Write ==
    \E put \in [Entry -> (Text \ past) \cup {None}], drop \in SUBSET Entry :
        /\ text' = [e \in Entry |->
                        IF e \in drop THEN None
                        ELSE IF put[e] # None THEN put[e] ELSE text[e]]
        /\ past' = past \cup ({put[e] : e \in Entry} \ {None})

Spec == Init /\ [][Write]_vars
=============================================================================
