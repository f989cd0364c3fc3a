--------------------------- MODULE MCCoreControl ----------------------------
(***************************************************************************)
(* Two small instances of CoreControl, told apart by `scenario`: peer-set   *)
(* transactions on three peers, two of them configured, against endpoint    *)
(* migrations; and a peer that is removed and added again while packets     *)
(* are in flight and its session is lost and restored.                      *)
(***************************************************************************)
EXTENDS CoreControl, TLC

CONSTANTS a, b, c, n1, n2, e1, e2, f

MCFamilies == {f}
MCDefaultRoute == [x \in {f} |-> {}]

Config1(prefix, policy) ==
    [AllowedIPs |-> {prefix}, Endpoint |-> NoEndpoint,
     PersistentKeepalive |-> 0, FECPolicy |-> policy, PresharedKey |-> NoKey]

MCInitialPeers == a :> Config1(n1, "balanced") @@ b :> Config1(n2, "balanced")
MCInitialAddresses == a :> e1

Set(op, peer) == [op |-> op, peer |-> peer]

MCMutationSets ==
    {a :> Set(Update, Config1(n1, "latency")),
     a :> Set(Update, Config1(n1, "latency"))
        @@ b :> Set(Update, Config1(n2, "latency")),
     a :> Set(Update, Config1(n1, "latency"))
        @@ b :> Set(Remove, Config1(n2, "balanced"))
        @@ c :> Set(Add, Config1(n2, "balanced")),
     b :> Set(Remove, Config1(n2, "balanced")),
     c :> Set(Add, Config1(n2, "balanced"))}
MCReplacement ==
    {b :> Set(Remove, Config1(n2, "balanced")),
     b :> Set(Add, Config1(n2, "balanced"))}

MCOnePeer == b :> Config1(n2, "balanced")
MCOneAddress == b :> e1

VARIABLE scenario

Readiness == INSTANCE CoreControl WITH PublicKeys <- {b},
    InitialPeers <- MCOnePeer, InitialAddresses <- MCOneAddress,
    MutationSets <- MCReplacement, Reconnects <- {e1}, MaxPackets <- 2

MCInit ==
    \/ scenario = "transactions" /\ Init
    \/ scenario = "readiness" /\ Readiness!Init

MCNext ==
    /\ UNCHANGED scenario
    /\ \/ scenario = "transactions" /\ Next
       \/ scenario = "readiness" /\ Readiness!Next

MCSpec == MCInit /\ [][MCNext]_<<vars, scenario>>
=============================================================================
