------------------------------ MODULE BenchTools ------------------------------
(***************************************************************************)
(* The tools of tools/: one invocation of one of them.  They share nothing *)
(* but the builds they measure.  The machine of tools/vm/ is kept by       *)
(* several commands in turn.                                               *)
(***************************************************************************)
EXTENDS PlacementBench, PerfGate, NativeBench, EchoProbe, BenchFixture, IsolatedRun,
        OutputPacer, SlotTrace, VmHost

CONSTANT Tools    \* the tools of this instance

VARIABLE tool     \* the one that was invoked

toolVars == <<tool, placementVars, gateVars, nativeVars, echoVars, fixtureVars, isolatedVars,
             pacerVars, slotVars, vmVars>>

ToolsInit ==
  /\ tool \in Tools
  /\ PlacementInit /\ GateInit /\ NativeInit /\ EchoInit /\ FixtureInit /\ IsolatedInit
  /\ PacerInit /\ SlotInit /\ VmInit

Placement ==
  /\ tool = "placement" /\ PlacementNext
  /\ UNCHANGED <<tool, gateVars, nativeVars, echoVars, fixtureVars, isolatedVars, pacerVars, slotVars, vmVars>>

Gate ==
  /\ tool = "gate" /\ GateNext
  /\ UNCHANGED <<tool, placementVars, nativeVars, echoVars, fixtureVars, isolatedVars, pacerVars, slotVars, vmVars>>

Native ==
  /\ tool = "native" /\ NativeNext
  /\ UNCHANGED <<tool, placementVars, gateVars, echoVars, fixtureVars, isolatedVars, pacerVars, slotVars, vmVars>>

Echo ==
  /\ tool = "echo" /\ EchoNext
  /\ UNCHANGED <<tool, placementVars, gateVars, nativeVars, fixtureVars, isolatedVars, pacerVars, slotVars, vmVars>>

Throughput ==
  /\ tool = "throughput" /\ FixtureNext
  /\ UNCHANGED <<tool, placementVars, gateVars, nativeVars, echoVars, isolatedVars, pacerVars, slotVars, vmVars>>

Isolated ==
  /\ tool = "isolated" /\ IsolatedNext
  /\ UNCHANGED <<tool, placementVars, gateVars, nativeVars, echoVars, fixtureVars, pacerVars, slotVars, vmVars>>

Pacer ==
  /\ tool = "pacer" /\ PacerNext
  /\ UNCHANGED <<tool, placementVars, gateVars, nativeVars, echoVars, fixtureVars, isolatedVars, slotVars, vmVars>>

Slot ==
  /\ tool = "slot" /\ SlotNext
  /\ UNCHANGED <<tool, placementVars, gateVars, nativeVars, echoVars, fixtureVars, isolatedVars, pacerVars, vmVars>>

Machine ==
  /\ tool = "vm" /\ VmNext
  /\ UNCHANGED <<tool, placementVars, gateVars, nativeVars, echoVars, fixtureVars, isolatedVars, pacerVars, slotVars>>

ToolsNext == Placement \/ Gate \/ Native \/ Echo \/ Throughput \/ Isolated \/ Pacer \/ Slot \/ Machine

ToolsSpec == ToolsInit /\ [][ToolsNext]_toolVars

================================================================================
