---------------------------- MODULE MCEventLoop ----------------------------
EXTENDS EventLoop

MCSigs == {"int", "chld"}
MCPeers == {"p", "q"}
MCKinds == {"post", "timer", "signalfd", "pipe", "stdin", "udp", "listen"} \cup MCSigs \cup MCPeers
MCFollowers == {Key("a", {}), Key("ya", {"alt"}), Key("INS", {"ctrl"}), Key("UP", {})}
MCPrograms == {{"timer"}, {"post", "signal"}, {"pipe"}, {"server"}, {"stdin"}, {"udp"}, {"handler"}}
MCSigLists == {{"int", "segv"}, {"segv", "stack"}, {"int", "stack"}}
=============================================================================
