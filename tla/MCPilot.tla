------------------------------- MODULE MCPilot -------------------------------
EXTENDS PilotSkills, TLC

PilotCredits(ask, note, stop, fault, crash, leave) ==
  [l \in PilotLimits |-> CASE l = "ask" -> ask [] l = "note" -> note [] l = "stop" -> stop
                           [] l = "fault" -> fault [] l = "crash" -> crash [] OTHER -> leave]

PilotCases == {PilotCredits(0, 0, 2, 1, 0, 0), PilotCredits(0, 0, 0, 2, 0, 0),
               PilotCredits(1, 0, 1, 0, 0, 0), PilotCredits(1, 0, 0, 1, 0, 0),
               PilotCredits(0, 1, 1, 0, 0, 0), PilotCredits(0, 1, 0, 1, 0, 0),
               PilotCredits(0, 0, 1, 0, 1, 0),
               PilotCredits(0, 0, 0, 1, 0, 1), PilotCredits(0, 0, 0, 0, 1, 1)}

PilotLeaves == {PilotCredits(0, 0, 0, 1, 0, 1)}
==============================================================================
