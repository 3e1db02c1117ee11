------------------------------- MODULE MCHost -------------------------------
(***************************************************************************)
(* What the host decides about a server: the audit of its checkpoint, the  *)
(* preflight with the space of the preparation, the memory watchdog once   *)
(* it runs, and the campaign that promotes it over another one.  These     *)
(* parts share no variables, so a behaviour is one of one part, and the    *)
(* others keep one initial state.                                          *)
(***************************************************************************)
EXTENDS Watchdog, Preflight, Audit, Campaign, TLC

VARIABLE part

MCStrays == ("main_x" :> "main") @@ ("mtp_x" :> "mtp") @@ ("ple_x" :> "ple")

\* "/" is on a local disk; the cache directory, "/cache/ple", may be on a mount
\* of its own, below another one, or on one that a second mount hides.
Mount(point, fstype) == [point |-> point, fstype |-> fstype]
Root == Mount(<< >>, "ext4")
MCMounts == {<<Root>>, <<Mount(<< >>, "nfs4")>>,
             <<Root, Mount(<<"cache">>, "nfs4")>>,
             <<Root, Mount(<<"cache">>, "nfs4"), Mount(<<"cache", "ple">>, "ext4")>>,
             <<Root, Mount(<<"cache">>, "ext4"), Mount(<<"data">>, "nfs4")>>,
             <<Root, Mount(<<"cache">>, "autofs"), Mount(<<"cache">>, "nfs4")>>}
MCPleDir == <<"cache", "ple">>

\* Three servers of one image, of which two differ in mode and vision, and
\* one of another image; their rates and times are 5% apart or less.
Running(image, mode, vision, other, rate, ttft, wall) ==
  [image |-> image, profile |-> [mode |-> mode, vision |-> vision, other |-> other],
   rate |-> rate, ttft |-> ttft, wall |-> wall]
MCServers == {Running("i1", "ar", "off", "x", 20, 20, 20), Running("i1", "nextn", "off", "x", 21, 21, 20),
              Running("i2", "nextn", "off", "x", 21, 20, 20), Running("i1", "ar", "on", "x", 21, 20, 19)}
MCLaneOrder == <<"prose", "short", "vision">>
GoodWire == [request |-> "frozen", bytes |-> "bounded", model |-> "right", done |-> TRUE, finish |-> "length",
             usage |-> "exact", details |-> "zero", contract |-> "pinned", aggregate |-> "none"]
\* A good capture, and those that differ from it in one respect.
MCWires == {GoodWire, [GoodWire EXCEPT !.request = "other"], [GoodWire EXCEPT !.bytes = "limit"],
            [GoodWire EXCEPT !.model = "other"], [GoodWire EXCEPT !.done = FALSE],
            [GoodWire EXCEPT !.finish = "stop"], [GoodWire EXCEPT !.usage = "off"]}
           \cup {[GoodWire EXCEPT !.details = d, !.contract = c, !.aggregate = a] :
                   d \in {"absent", "zero", "hit", "malformed", "changing"},
                   c \in {"pinned", "none"}, a \in {"none", "cold", "hit"}}

OneHost == host = GoodHost(NoMounts) /\ free = 0 /\ table = "none"
OneCheckpoint == config = "bad"

MCInit ==
  /\ Init /\ PreflightInit /\ AuditInit /\ CampaignInit
  /\ \/ part = "preflight" /\ OneCheckpoint
     \/ part = "audit" /\ OneHost
     \/ part \in {"watchdog", "campaign"} /\ OneCheckpoint /\ OneHost

MCNext ==
  /\ \/ part = "preflight" /\ PreflightNext /\ UNCHANGED <<checkpoint, campaign, vars>>
     \/ part = "audit" /\ AuditNext /\ UNCHANGED <<space, campaign, vars>>
     \/ part = "watchdog" /\ Next /\ UNCHANGED <<space, checkpoint, campaign>>
     \/ part = "campaign" /\ CampaignNext /\ UNCHANGED <<space, checkpoint, vars>>
  /\ UNCHANGED part

MCSpec == MCInit /\ [][MCNext]_<<space, checkpoint, campaign, vars, part>>
=============================================================================
