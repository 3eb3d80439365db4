-------------------------------- MODULE MCBoss --------------------------------
(***************************************************************************)
(* CRCBossEpollServer under three environments, one chosen at the start:   *)
(* "crowd": every peer says at most one thing, leaves or goes silent;      *)
(* "talk": one peer alone, which says more than the buffers hold;          *)
(* "add": peers that stay, and registrations with epoll that fail.         *)
(***************************************************************************)
EXTENDS CRCBossEpollServer

CONSTANT Talker

VARIABLE mode

mcVars == <<mode, vars>>

(* What the environment of a mode never does; the servers are free. *)
Within ==
    /\ mode = "talk" => \A c \in Conns \ {Talker} : peer[c] = "none"
    /\ mode # "talk" => \A c \in Conns : sent[c] <= 1
    /\ mode = "add" => \A c \in Conns : peer[c] # "gone"
    /\ mode # "add" => ListensToClients

MCInit == Init /\ mode \in {"crowd", "talk", "add"}
MCNext == Next /\ UNCHANGED mode /\ Within'

MCSpec ==
    MCInit /\ [][MCNext]_mcVars /\ ThreadsFairness /\ PeersRead /\ ClockGoesOn
=============================================================================
