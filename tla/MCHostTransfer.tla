---------------------------- MODULE MCHostTransfer ----------------------------
(***************************************************************************)
(* HostTransfer for TLC: one host, the pool with two directories, and a    *)
(* business with an idle module and two others.                            *)
(***************************************************************************)
EXTENDS HostTransfer

CONSTANTS h, p1, p2, idle, a, b

MCBizOf == [m \in {p1, p2, idle, a, b} |-> IF m \in {p1, p2} THEN "pool" ELSE "biz"]
MCIdleOf == [x \in {"pool", "biz"} |-> IF x = "pool" THEN p1 ELSE idle]
MCPlaces == {{}, {p1}, {idle}, {a, b}}

Ask(k, x, ms) ==
    [kind |-> k, hosts |-> {h}, biz |-> x, src |-> x, modules |-> ms, remove |-> {}]
MCRequests ==
    {Ask("normal", "biz", {a}), Ask("append", "biz", {b}), Ask("remove", "biz", {a}),
     Ask("inner", "biz", {}), Ask("delete", "pool", {}), Ask("delete", "biz", {}),
     Ask("create", "biz", {}),
     Ask("import", "pool", {p1}), Ask("directory", "pool", {p2}),
     [Ask("across", "pool", {p1}) EXCEPT !.src = "biz"],
     [Ask("across", "biz", {idle}) EXCEPT !.src = "pool"],
     [Ask("auto", "biz", {b}) EXCEPT !.remove = {a}],
     [Ask("deletemodule", "biz", {b}) EXCEPT !.hosts = {}]}
\* A new host, imported.
NewPlaces == {{}}
ImportRequests == {Ask("import", "pool", {p1})}
=============================================================================
