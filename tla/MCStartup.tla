----------------------------- MODULE MCStartup -----------------------------
(* Instances of Startup: up to two tenants, every field present or absent. *)
EXTENDS Startup

MCUserID == {"empty", "u1", "u2"}
MCPrefix == {<< >>, <<"a">>}
MCAddr == {"empty", "b0", "b1"}

MCLine == [ID : MCUserID, TopicPrefix : MCPrefix, Upstream : {"empty", "b1"}]
MCConfig ==
    [advertised : {"empty", "proxy"}, bootstrap : {"empty", "b0"},
     type : {"empty", "memory", "etcd"},
     tenants : {<< >>} \cup {<<t>> : t \in MCLine} \cup {<<t, u>> : t, u \in MCLine},
     admin : BOOLEAN, adminListen : {"empty", "no host:port"},
     tls : BOOLEAN, keyPair : {"empty", "files"},
     mechanism : {"empty", "SCRAM-SHA-256", "PLAIN"}]
=============================================================================
