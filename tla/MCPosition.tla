------------------------------ MODULE MCPosition ------------------------------
(***************************************************************************)
(* An instance of the position handoff: a Run of one attack or normal      *)
(* scenario, and Ground Truth files that are right or wrong in one place.  *)
(***************************************************************************)
EXTENDS R1PositionHandoff, TLC

CommandSymmetry == Permutations(Commands)

MCInstants == 0..1
MCTerminal == {"exited"}
MCLastAction == [attack |-> "cleanup", normal |-> "report"]

MCPolicy ==
    [id |-> "wmi", version |-> 1, family |-> "wmi_management", hash |-> "h1",
     boundary |-> MCLastAction,
     owned |-> [t \in {"attack", "normal"} |->
                    [intermediate |-> "shell", final_tool |-> "tool"]],
     terminal |-> MCTerminal, protected |-> {"system"}]

ASSUME PolicyRegistered ==
    RegistryOK({MCPolicy}) /\ LoadPolicy({MCPolicy}, "wmi", 1) = {MCPolicy}

MCExpected == [run |-> "R1", host |-> "target", family |-> "wmi_management", policyHash |-> "h1"]

Scenario ==
    [id |-> "S", family |-> "wmi_management",
     actions |-> [attack |-> <<[action |-> "start", offset |-> 0], [action |-> "cleanup", offset |-> 0]>>,
                  normal |-> <<[action |-> "start", offset |-> 0], [action |-> "report", offset |-> 0]>>]]

Processes(state) ==
    [intermediate |-> [image |-> "shell", guid |-> 1, state |-> "exited"],
     final_tool   |-> [image |-> "tool", guid |-> 2, state |-> state]]

Good(type, t) ==
    [meta |-> [run |-> "R1", host |-> "target", family |-> "wmi_management", type |-> type,
               scenario |-> "S", start |-> 0, end |-> 1],
     policy |-> MCPolicy,
     context |-> [run |-> "R1", host |-> "target", scenario |-> Scenario,
                  lineage |-> [intermediate |-> [guid |-> 1, image |-> "shell"],
                               final_tool |-> [guid |-> 2, image |-> "tool"]]],
     scenario |-> Scenario,
     rows |-> <<[run |-> "R1", action |-> "start", at |-> 0],
                [run |-> "R1", action |-> MCLastAction[type], at |-> t]>>,
     control |-> [run |-> "R1", host |-> "target", action |-> MCLastAction[type], at |-> t],
     boundary |-> [action |-> MCLastAction[type], at |-> t, processes |-> Processes("exited")]]

Variants(x) ==
    {x,
     [x EXCEPT !.meta.run = "R2"], [x EXCEPT !.policy.hash = "h2"],
     [x EXCEPT !.context.host = "other"], [x EXCEPT !.scenario.id = "S2"],
     [x EXCEPT !.rows[2].action = "start"], [x EXCEPT !.rows[2].at = 1],
     [x EXCEPT !.rows = <<x.rows[2], x.rows[2]>>],
     [x EXCEPT !.control.action = "start"], [x EXCEPT !.control.at = 1 - x.control.at],
     [x EXCEPT !.boundary.at = 1 - x.boundary.at],
     [x EXCEPT !.boundary.processes = Processes("running")],
     [x EXCEPT !.boundary.processes.final_tool.guid = 1],
     [x EXCEPT !.boundary.processes.final_tool.image = "system"],
     [x EXCEPT !.context.lineage.final_tool.guid = 3]}

MCInputs == Variants(Good("attack", 0)) \cup {Good("normal", 1)}
=============================================================================
