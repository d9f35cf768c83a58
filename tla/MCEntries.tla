----------------------------- MODULE MCEntries ------------------------------
(***************************************************************************)
(* VaultEntries for model checking: what the calls ask for, and the vaults *)
(* they begin with.                                                        *)
(***************************************************************************)
EXTENDS VaultEntries, Sequences, TLC

CONSTANTS k1, k2, e1, e2, c1, c2, c3, me, peer

Blank == [op |-> "read", e |-> e1, k |-> k1, from |-> 0, to |-> peer,
          out |-> {}, trust |-> FALSE, pin |-> FALSE,
          re |-> [e \in Entry |-> "none"]]
OnEntry(op) == [Blank EXCEPT !.op = op]
Under(op, k) == [Blank EXCEPT !.op = op, !.k = k]
Rotate(from, out, how) ==
    [Blank EXCEPT !.op = "rotate", !.from = from, !.out = out, !.re[e1] = how]

Writes == {OnEntry(op) : op \in {"update", "updateIf", "refresh", "delete"}}
          \cup {Under("reKey", k2), Under("reKey", k1)}
          \cup {Under("put", k1), Under("put", k2)}
Rotations == {Rotate(0, {}, how) : how \in {"none", "skip", "delete", "replace"}}
             \cup {Rotate(0, {peer}, "preserve"), Rotate(1, {}, "none"),
                   Rotate(0, {me}, "skip"),
                   [Rotate(0, {}, "none") EXCEPT !.trust = TRUE]}
KeyCalls == {Under(op, k1) : op \in {"grant", "rewrap", "setState",
                                     "deleteKey"}}
            \cup {[Under("create", k2) EXCEPT !.pin = TRUE],
                  [Under("grant", k1) EXCEPT !.to = me]}

Two(S, T) == {c1 :> a @@ c2 :> b @@ c3 :> None : a \in S, b \in T}
Three(a, b, c) == c1 :> a @@ c2 :> b @@ c3 :> c

\* The calls that are also taken three at a time.
Core == <<OnEntry("updateIf"), Under("reKey", k2), Rotate(0, {}, "none"),
          Rotate(0, {}, "skip"), Under("put", k2), OnEntry("delete"),
          OnEntry("refresh")>>

MCPlan ==
    Two(Writes, Writes) \cup Two(Writes, Rotations)
    \cup Two(Rotations, Rotations) \cup Two(KeyCalls, KeyCalls)
    \cup Two(Rotations \cup Writes, KeyCalls)
    \cup Two({OnEntry("read")}, Rotations \cup KeyCalls \cup Writes)
    \cup {Three(Core[i], Core[j], Core[n]) :
              i \in 1..2, j \in 1..Len(Core), n \in 1..Len(Core)}
    \cup {Three(Rotate(0, {peer}, "none"), Rotate(1, {}, "none"),
                Under("grant", k1)),
          Three(Rotate(0, {}, "none"), Under("setState", k1),
                Under("rewrap", k1)),
          Three(Under("reKey", k2), OnEntry("update"),
                [Rotate(0, {}, "none") EXCEPT !.k = k2]),
          Three(Under("reKey", k2), [Under("reKey", k2) EXCEPT !.e = e2],
                Under("reKey", k1))}

MCLockRank == k1 :> 1 @@ k2 :> 2

Row(k) == [key |-> k, ver |-> 1, hlc |-> Old, seal |-> <<k, 1>>, text |-> Old]
Wrap(k, r, pin) == [key |-> k, ver |-> 1, rcpt |-> r, id |-> Old, pin |-> pin]
KeyAt1 == [ver |-> 1, state |-> "active"]

\* Two entries or none under the first key, which another principal shares,
\* with a secret or without; the second key is stored or yet to be created.
MCStart ==
    {[keys  |-> k1 :> KeyAt1 @@ k2 :> (IF two THEN KeyAt1 ELSE None),
      wraps |-> {Wrap(k1, me, FALSE), Wrap(k1, peer, pin)}
                \cup IF two THEN {Wrap(k2, me, FALSE)} ELSE {},
      rows  |-> e1 :> (IF full THEN Row(k1) ELSE None) @@ e2 :> Row(k1)] :
        two \in BOOLEAN, pin \in BOOLEAN, full \in BOOLEAN}
=============================================================================
