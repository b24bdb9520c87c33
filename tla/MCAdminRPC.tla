----------------------------- MODULE MCAdminRPC -----------------------------
(* Instances of AdminRPC for TLC: operators that create, recreate under    *)
(* another prefix, delete and list, one of them with an empty field, while *)
(* a connection looks a tenant up.                                         *)
EXTENDS AdminRPC, TLC

CONSTANTS s1, s2

TwoSlots == {s1, s2}

Chars == {"a", "b"}
Users == {"alice", "empty"}
Prefixes == {<<"a">>, <<"b">>, << >>}
Brokers == {"kafka", "empty"}

T(id, prefix) == [ID |-> id, TopicPrefix |-> prefix, Upstream |-> "kafka"]
O(method, t) == [method |-> method, tenant |-> t]

Writes == {O("Set", T("alice", <<"a">>)), O("Set", T("alice", <<"b">>)),
           O("Delete", T("alice", <<"a">>))}
Reads == {O("List", ZeroTenant), O("Get", T("alice", <<"a">>))}
Refused == {O("Set", T("alice", << >>)), O("Delete", ZeroTenant), O("Malformed", ZeroTenant)}
AllOps == Writes \cup Reads \cup Refused
=============================================================================
