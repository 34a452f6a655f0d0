---------------------------- MODULE MCWorldRelay ----------------------------
(* Instances of WorldRelay for TLC: how much may happen, one record per story. *)
EXTENDS WorldRelay

Story(mode, sessions, restarts, facts, samples, replays, dials) ==
  [mode |-> mode, sessions |-> sessions, restarts |-> restarts, facts |-> facts, samples |-> samples,
   replays |-> replays, dials |-> [f \in Friends |-> dials]]

\* A long session; a room replayed; a rejoin within a session; sessions that end, of a relay that may restart; and a
\* public realm, whose friends outlive its host.
Stories ==
  {Story("CampaignCoop", 1, 0, 4, 1, 0, 1), Story("CampaignCoop", 1, 0, 3, 2, 2, 1),
   Story("CampaignCoop", 1, 0, 3, 0, 0, 2), Story("CampaignCoop", 2, 0, 2, 0, 0, 2),
   Story("CampaignCoop", 2, 1, 1, 0, 0, 2), Story("PublicRealm", 2, 0, 1, 0, 0, 2)}
=============================================================================
