---------------------------- MODULE MCKeyStores -----------------------------
(***************************************************************************)
(* One world per backend: processes that share the storage, how the store  *)
(* is opened, and the calls made.                                          *)
(***************************************************************************)
EXTENDS KeyStores

CONSTANTS here, there, x, y, lock

Plain == [lock |-> NoLock, crypto |-> "noble", insecure |-> "unset"]
Locked == [Plain EXCEPT !.lock = lock]
Insecure == [Plain EXCEPT !.insecure = "yes"]

Of(backend, procs, ids, ops) ==
    [backend |-> backend, procs |-> procs, ids |-> ids, ops |-> ops,
     opens |-> {Plain}, asks |-> {Plain}, stored |-> Blank,
     path |-> [k \in KeyID |-> IF k = x THEN 9 ELSE NoKey], encrypts |-> TRUE, faults |-> 0]

MCWorld == {
    [Of("node", {here, there}, {x}, {"identity", "remove"}) EXCEPT
        !.opens = {Plain, Locked}, !.asks = {Locked}, !.faults = 1],
    Of("node", {here}, {x}, {"provide", "get", "set", "remove", "list", "provideSync"}),
    [Of("electron", {here, there}, {x, y}, {"provide", "set"}) EXCEPT
        !.opens = {Locked}, !.asks = {Locked}],
    [Of("electron", {here}, {x}, {"provide", "get", "set", "remove", "provideSync"}) EXCEPT
        !.asks = {Plain, Insecure, [Plain EXCEPT !.crypto = "other"]},
        !.opens = {Plain, Insecure}, !.encrypts = FALSE, !.faults = 1],
    [Of("browser", {here}, {x}, {"provide", "get", "set", "remove"}) EXCEPT !.faults = 1],
    [Of("browser", {here, there}, {x}, {"identity", "signing", "remove"}) EXCEPT
        !.stored[x] = [form |-> "es256", key |-> 8]],
    [Of("expo", {here}, {x}, {"provide", "get", "set", "remove", "provideSync"}) EXCEPT
        !.faults = 1],
    [Of("node", {here}, {x}, {"provideSync", "provide"}) EXCEPT !.opens = {Locked}, !.asks = {Locked}],
    [Of("electron", {here}, {x}, {"provideSync", "provide"}) EXCEPT !.opens = {Locked}, !.asks = {Locked}],
    Of("hd", {here}, {x, y}, {"provide", "identity", "get"}) }
=============================================================================
