---------------------------- MODULE MCLogProgram ----------------------------
(* Every file of up to three lines of ten kinds, test/test.conf and one file    *)
(* the runtime can be made of; three clients, two of which the hub admits.  Of  *)
(* the values b.log and b.sock are as long as a block.                          *)
EXTENDS LogProgram

CONSTANT GARBAGE

MCFds == {0, 1, 2, 4}
MCLeftover == {GARBAGE}
MCProcs == {log_accept_handler, log_read_handler}

MCNames == {"log", "net", "store"}
MCNameLen == [log |-> 5, net |-> 5, store |-> 7]
MCKeys == {"file", "socket", "level", "type"}
MCLevels == {"D"}
MCFilling == {"b.log", "b.sock"}
MCValues == {"a.log", "file", "b.log", "a.sock", "b.sock", "D", "DEBUG"}

Section(name) == [kind |-> "section", name |-> name]
Item(key, value) == [kind |-> "item", key |-> key, value |-> value]

MCLines ==
    {Section(name) : name \in MCNames}
    \cup {Item("file", "a.log"), Item("file", "b.log"), Item("socket", "a.sock"),
          Item("socket", "b.sock"), Item("level", "D"), [kind |-> "bad"], [kind |-> "skip"]}

TestConf == <<Section("log"), Item("level", "DEBUG"), Item("type", "file"),
              Item("file", "a.log"), Item("socket", "a.sock")>>

GoodConf == <<[kind |-> "skip"], Section("log"),
              Item("socket", "a.sock"), Item("level", "D"), Item("file", "a.log")>>

MCFiles == {TestConf, GoodConf} \cup UNION {[1 .. n -> MCLines] : n \in 0 .. 3}
=============================================================================
