----------------------------- MODULE MCRosPeer -----------------------------
(* RosPeer with one peer and its requests, one peer whose socket blocks and *)
(* gets packets, and two peers that come and go.                            *)
EXTENDS RosPeer

CONSTANTS p1, p2, r1, r2

Mix(ps, rs, i, b, n) == [peers |-> ps, reqs |-> rs, in |-> i, blocks |-> b, resps |-> n]
MCLimits == {Mix({p1}, {r1}, 1, 0, 1), Mix({p1}, {r1}, 0, 0, 2), Mix({p1}, {r1, r2}, 0, 0, 1),
             Mix({p1}, {}, 1, 1, 0), Mix({p1, p2}, {}, 0, 0, 0)}
=============================================================================
