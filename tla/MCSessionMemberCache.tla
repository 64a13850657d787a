------------------------- MODULE MCSessionMemberCache -------------------------
(* Two threads, of one Transmite process or of two, and one member.            *)
EXTENDS SessionMemberCache
CONSTANTS w1, w2, p1, p2
Placements == {f \in [{w1, w2} -> {p1, p2}] : f[w1] = p1}
===============================================================================
