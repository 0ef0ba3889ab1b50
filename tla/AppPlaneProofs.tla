-------------------------- MODULE AppPlaneProofs ---------------------------
(***************************************************************************)
(* Safety of the app plane for any number of outside changes and redirects.*)
(*                                                                         *)
(* What a verdict says is about the adapter call long before it; the       *)
(* invariants carry along which adapter may hold which contract            *)
(* (SelectInv), what has not happened yet at each phase (QuietInv), how    *)
(* far the network adapter has come (HopInv), and what is known of the     *)
(* paths and of the evidence when an adapter has acted (EvidenceInv).      *)
(***************************************************************************)
EXTENDS AppPlane, TLAPS

-----------------------------------------------------------------------------
(* Contracts *)

FamilyOf ==
    [a \in {"filesystem.local", "process.local", "application.linux",
            "application.macos", "application.windows", "application.stub",
            "network.local", "browser.local", "browser.engine", "tool_executor"} |->
        IF a = "filesystem.local" THEN "filesystem"
        ELSE IF a = "process.local" THEN "process"
        ELSE IF a = "network.local" THEN "network"
        ELSE IF a \in {"browser.local", "browser.engine"} THEN "browser"
        ELSE IF a = "tool_executor" THEN "tool" ELSE "application"]

\* What the contracts of a family have in common.
LEMMA ContractShape ==
    ASSUME call \in Contracts
    PROVE  /\ call.family \in {"filesystem", "process", "application", "network",
                               "browser", "tool"}
           /\ Op({"launch", "activate"}) => call.family = "application"
           /\ call.family = "filesystem" => call.path \in Paths /\ call.dest \in Paths
           /\ call.backend \in {"none", "browser.engine", "tool_executor"}
           /\ call.backend = "tool_executor" => call.family = "tool"
           /\ call.backend = "browser.engine" => call.family = "browser"
           /\ call.family = "application" =>
                 Op({"launch", "activate", "terminate", "inspect"})
           /\ call.family = "filesystem" => Op(WRITE_OPS \cup {"read", "inspect"})
           /\ call.family = "tool" => ~call.scoped
BY DEF Contracts, Op, Paths, WRITE_OPS, Flaws

\* A tool's contract that names no backend goes to the adapter its capability
\* names, which refuses it for want of a scope.
Stray(a) ==
    call.family = "tool" /\ ~call.scoped /\ a \in {"filesystem.local", "network.local"}

\* Whatever is selected supports the family or the capability, and the stub is
\* selected only where there is no adapter for the platform.
LEMMA SelectionFits ==
    ASSUME call \in Contracts,
           platform \in {"Linux", "Darwin", "Windows", "other"},
           NEW i \in DOMAIN Registered, Selects(i)
    PROVE  /\ Registered[i] \in DOMAIN FamilyOf
           /\ FamilyOf[Registered[i]] = call.family \/ Stray(Registered[i])
           /\ Registered[i] = "application.stub" => platform = "other"
<1>1. i \in 1 .. 10 /\ DOMAIN Registered = 1 .. 10
  BY DEF Registered
<1>2. supports(Registered[i])
  BY DEF Selects
<1>3. Registered[i] \in DOMAIN FamilyOf
  BY <1>1 DEF Registered, FamilyOf
<1>4. FamilyOf[Registered[i]] = call.family \/ Stray(Registered[i])
  BY <1>2, <1>3, ContractShape DEF supports, Names, FamilyOf, Stray
<1>5. ASSUME Registered[i] = "application.stub", platform # "other" PROVE FALSE
  <2>1. call.family = "application" /\ call.backend = "none"
    BY <1>4, <1>5, ContractShape DEF FamilyOf, Stray
  <2>2. i = 6
    BY <1>1, <1>5 DEF Registered
  <2>3. \A j \in 1 .. 10 : supports(Registered[j]) => 6 <= j
    BY <1>1, <1>5, <2>1, <2>2 DEF Selects
  <2>4. Registered[3] = "application.linux" /\ Registered[4] = "application.macos"
        /\ Registered[5] = "application.windows"
    BY DEF Registered
  <2>5. supports(Registered[3]) \/ supports(Registered[4]) \/ supports(Registered[5])
    BY <1>5, <2>1, <2>4 DEF supports
  <2> QED  BY <2>3, <2>5
<1> QED  BY <1>3, <1>4, <1>5

-----------------------------------------------------------------------------
(* The invariant *)

Markers == {"none", "already absent", "content_match", "exists", "absent",
            "source_and_destination_exist", "source_absent_destination_exists",
            "process_completed", "open_accepted", "terminate_requested",
            "inspect_platform", "page_fetched", "response_received"}

Result == [outcome : {"none", "SUCCESS", "FAILURE", "UNKNOWN"},
           post : Markers, status : BOOLEAN]

Verdicts == [outcome : {"none", "SUCCESS", "FAILURE", "UNKNOWN"},
             by : {"none", "verification", "reconciler"}]

LEMMA ResultShape ==
    ASSUME NEW o \in {"none", "SUCCESS", "FAILURE", "UNKNOWN"}, NEW m \in Markers,
           NEW b \in BOOLEAN
    PROVE  [outcome |-> o, post |-> m, status |-> b] \in Result
BY Zenon DEF Result

TypeInv ==
    /\ TypeOK
    /\ adapter \in DOMAIN FamilyOf \cup {"none"}
    /\ hop \in [host : Hosts, count : Nat, pin : {"none", "public", "private"}]
    /\ sent \in Seq({"none", "public", "private"})

\* An adapter only holds contracts of its family, or strays it has not got
\* past its gate; the stub only where no platform adapter exists.
SelectInv ==
    phase \notin {"new", "refused"} =>
        /\ adapter \in DOMAIN FamilyOf
        /\ \/ FamilyOf[adapter] = call.family
           \/ Stray(adapter) /\ phase \notin {"act", "hop", "request", "post"}
        /\ adapter = "application.stub" => platform = "other"

Untried == {"new", "refused", "receipt", "invoked"}

\* What has not happened yet.
QuietInv ==
    /\ phase \in Untried \cup {"act", "hop", "request", "down_early"} => ~effect /\ ~handled
    /\ phase \in Untried => started = 0 /\ sent = <<>>

\* One request per hop, each to the address that passed the check.
HopInv ==
    /\ EveryHopChecked
    /\ phase \in {"hop", "request"} => Len(sent) = hop.count /\ hop.count <= MaxRedirects
    /\ phase = "request" => hop.pin = "public"

\* The FAILUREs behind which something may have been done.
Explained ==
    \/ answer.status
    \/ meddles > 0
    \/ call.family = "filesystem" /\ Op({"copy", "move"})
    \/ adapter \in {"browser.engine", "tool_executor"}

EvidenceInv ==
    /\ phase = "post" /\ adapter = "filesystem.local" =>
          Holds \/ meddles > 0 \/ Op({"copy", "move"})
    /\ phase = "answered" /\ effect /\ evaluate_verification = "FAILURE" => Explained

VerdictInv ==
    /\ phase # "final" => verdict.by = "none"
    /\ ReconciledFailureIsSafe /\ FailureIsKnown

Inv == TypeInv /\ SelectInv /\ QuietInv /\ HopInv /\ EvidenceInv /\ VerdictInv

LEMMA InitInv == Init => Inv
<1> SUFFICES ASSUME Init PROVE Inv
  OBVIOUS
<1>1. TypeInv
  <2>1. answer \in Result
    BY ResultShape DEF Init, NoAnswer, Markers
  <2>2. verdict \in [outcome : {"none", "SUCCESS", "FAILURE", "UNKNOWN"},
                     by : {"none", "verification", "reconciler"}]
    BY DEF Init
  <2>3. files \in [Paths -> Contents]
    BY DEF Init, Contents, Paths
  <2>4. effect \in BOOLEAN /\ handled \in BOOLEAN
    BY DEF Init
  <2>5. started \in 0 .. 2 /\ meddles \in 0 .. MaxMeddles
    BY PlaneAssumption DEF Init
  <2>6. TypeOK
    BY <2>1, <2>2, <2>3, <2>4, <2>5, Zenon DEF Init, TypeOK, Result, Markers
  <2> QED  BY <2>6 DEF Init, TypeInv, NoHop, Hosts
<1>2. SelectInv /\ QuietInv /\ HopInv /\ EvidenceInv /\ VerdictInv
  BY PlaneAssumption
     DEF Init, SelectInv, QuietInv, HopInv, EvidenceInv, VerdictInv, EveryHopChecked,
         ReconciledFailureIsSafe, FailureIsKnown, NoAnswer
<1> QED  BY <1>1, <1>2 DEF Inv

-----------------------------------------------------------------------------
(* What an adapter's step does, adapter by adapter *)

\* Every step of an adapter leaves contract, selection and verdict alone.
Within ==
    /\ UNCHANGED <<call, platform, adapter, verdict>>
    /\ phase \in {"invoked", "act", "hop", "request", "post"}
    /\ phase' \in {"act", "hop", "request", "post", "answered"}
    /\ answer' \in Result /\ effect' \in BOOLEAN /\ handled' \in BOOLEAN

\* The filesystem adapter fails a stray at once.
LEMMA FilesystemStray ==
    ASSUME Inv, FilesystemStep
    PROVE  call.family = "filesystem" \/ (FsInvoke /\ Fail)
<1>1. adapter = "filesystem.local" /\ phase \in {"invoked", "act", "post"}
  BY DEF FilesystemStep, FsInvoke, InspectPath, ReadFile, Write, Create, Delete, Copy,
         Move, FsPost, At
<1>2. call.family = "filesystem" \/ (phase = "invoked" /\ ~call.scoped)
  BY <1>1 DEF Inv, SelectInv, FamilyOf, Stray
<1>3. CASE phase = "invoked" /\ ~call.scoped
  <2>1. FsInvoke
    BY <1>3 DEF FilesystemStep, InspectPath, ReadFile, Write, Create, Delete, Copy,
         Move, FsPost, At
  <2>2. FsRefuses
    BY <1>3 DEF FsRefuses, Refuses
  <2> QED  BY <2>1, <2>2 DEF FsInvoke
<1> QED  BY <1>2, <1>3

LEMMA FilesystemWithin ==
    ASSUME Inv, FilesystemStep
    PROVE  /\ Within /\ adapter = "filesystem.local"
           /\ UNCHANGED <<target, started, dns, sent, hop, handled>>
           /\ files' \in [Paths -> Contents]
           /\ phase' \in {"act", "post", "answered"}
           /\ phase' = "act" => phase = "invoked" /\ UNCHANGED effect
           /\ call.family = "filesystem" \/ (phase' = "answered" /\ UNCHANGED effect)
<1>1. adapter = "filesystem.local"
  BY DEF FilesystemStep, FsInvoke, InspectPath, ReadFile, Write, Create, Delete, Copy,
         Move, FsPost, At
<1>2. files \in [Paths -> Contents]
      /\ answer \in Result /\ effect \in BOOLEAN /\ handled \in BOOLEAN
  BY DEF Inv, TypeInv, TypeOK, Result, Markers
<1>3. UNCHANGED <<call, platform, adapter, verdict, target, started, dns, sent, hop, handled>>
  BY DEF FilesystemStep, FsInvoke, InspectPath, ReadFile, Write, Create, WriteText,
         Delete, Copy, Move, FsPost, FsRest, control, world
<1>4. /\ phase \in {"invoked", "act", "post"} /\ phase' \in {"act", "post", "answered"}
      /\ phase' = "act" => phase = "invoked" /\ UNCHANGED effect
  BY DEF FilesystemStep, FsInvoke, InspectPath, ReadFile, Write, Create, WriteText,
         Delete, Copy, Move, FsPost, At, Fail, Raise, Answer, Acted
<1>5. files' \in [Paths -> Contents]
  <2>1. CASE call.family = "filesystem"
    <3>1. call.path \in Paths /\ call.dest \in Paths
      BY <2>1, ContractShape DEF Inv, TypeInv, TypeOK
    <3> QED
      BY <1>2, <3>1 DEF FilesystemStep, FsInvoke, InspectPath, ReadFile, Write, Create,
         WriteText, Delete, Copy, Move, FsPost, Put, Contents, world
  <2>2. CASE FsInvoke
    BY <1>2, <2>2 DEF FsInvoke, world
  <2> QED  BY <2>1, <2>2, FilesystemStray
<1>6. effect' \in BOOLEAN
  BY <1>2 DEF FilesystemStep, FsInvoke, InspectPath, ReadFile, Write, Create,
         WriteText, Delete, Copy, Move, FsPost, Acted
<1>7. answer' \in Result
  <2>1. \/ UNCHANGED answer
        \/ \E o \in {"SUCCESS", "FAILURE", "UNKNOWN"},
              m \in {"none", "already absent", Marker} :
              answer' = [outcome |-> o, post |-> m, status |-> FALSE]
    BY DEF FilesystemStep, FsInvoke, InspectPath, ReadFile, Write, Create, WriteText,
           Delete, Copy, Move, FsPost, Fail, Raise, Answer, Acted
  <2>2. {"none", "already absent", Marker} \subseteq Markers
    BY DEF Marker, Markers
  <2> QED  BY <1>2, <2>1, <2>2, ResultShape
<1>8. call.family = "filesystem" \/ (phase' = "answered" /\ UNCHANGED effect)
  BY FilesystemStray DEF FsInvoke, Fail, Answer
<1> QED  BY <1>1, <1>2, <1>3, <1>4, <1>5, <1>6, <1>7, <1>8 DEF Within

LEMMA HostWithin ==
    ASSUME Inv, HostStep
    PROVE  /\ Within /\ phase = "invoked" /\ phase' = "answered"
           /\ FamilyOf[adapter] \in {"process", "application"}
           /\ UNCHANGED <<files, dns, sent, hop, handled>>
           /\ target' \in {"alive", "gone", "foreign"} /\ started' \in 0 .. 2
<1>1. /\ phase = "invoked"
      /\ adapter \in {"process.local", "application.linux", "application.macos",
                      "application.windows", "application.stub"}
  BY DEF HostStep, RunProcess, Launch, LaunchWindows, LaunchOpen, Terminate,
         TerminateMacOS, TerminateWindows, Inspect, Simulate, At
<1>2. started = 0 /\ effect \in BOOLEAN /\ handled \in BOOLEAN
      /\ target \in {"alive", "gone", "foreign"}
  BY <1>1 DEF Inv, QuietInv, Untried, TypeInv, TypeOK
<1>3. UNCHANGED <<call, platform, adapter, verdict, files, dns, sent, hop, handled>>
  BY DEF HostStep, RunProcess, Launch, LaunchWindows, LaunchOpen, Terminate, Signal,
         TerminateMacOS, TerminateWindows, Inspect, Simulate, HostRest, control
<1>4. /\ target' \in {"alive", "gone", "foreign"} /\ effect' \in BOOLEAN
      /\ started' = 0 \/ started' = 0 + 1 \/ started' = 0 + 2
  BY <1>2, Zenon DEF HostStep, RunProcess, Launch, LaunchWindows, LaunchOpen, Terminate,
         Signal, TerminateMacOS, TerminateWindows, Inspect, Simulate, Untouched, Start
<1>5. /\ phase' = "answered"
      /\ \E o \in {"SUCCESS", "FAILURE", "UNKNOWN"}, m \in Markers, b \in BOOLEAN :
            answer' = [outcome |-> o, post |-> m, status |-> b]
  BY DEF HostStep, RunProcess, Launch, LaunchWindows, LaunchOpen, Terminate, Signal,
         TerminateMacOS, TerminateWindows, Inspect, Simulate, Answer, Fail, Raise, Markers
<1>6. answer' \in Result
  BY <1>5, ResultShape
<1>7. FamilyOf[adapter] \in {"process", "application"}
  BY <1>1 DEF FamilyOf
<1> QED  BY <1>1, <1>2, <1>3, <1>4, <1>5, <1>6, <1>7 DEF Within

LEMMA NetworkWithin ==
    ASSUME Inv, NetworkStep
    PROVE  /\ Within /\ adapter \in {"network.local", "browser.local", "browser.engine"}
           /\ UNCHANGED <<target, started, dns, handled>>
           /\ files' \in [Paths -> Contents]
           /\ phase' \in {"act", "hop", "request"} => UNCHANGED effect
           /\ phase' = "act" => phase = "invoked"
           /\ phase' = "post" => adapter = "browser.engine"
           /\ adapter # "browser.engine" => UNCHANGED effect /\ phase # "post" /\ phase # "act"
           /\ FamilyOf[adapter] = call.family \/ phase' = "answered"
<1>1. adapter \in {"network.local", "browser.local", "browser.engine"}
  BY DEF NetworkStep, NetInvoke, Recheck, Request, EngineInvoke, EngineAct, EnginePost,
         Fetches, At
<1>2. files \in [Paths -> Contents] /\ effect \in BOOLEAN /\ handled \in BOOLEAN
      /\ answer \in Result
  BY DEF Inv, TypeInv, TypeOK, Result, Markers
<1>3. UNCHANGED <<call, platform, adapter, verdict, target, started, dns, handled>>
  BY DEF NetworkStep, NetInvoke, Recheck, Request, EngineInvoke, EngineAct, EnginePost,
         NetRest, EngineRest, control
<1>4. files' \in [Paths -> Contents] /\ effect' \in BOOLEAN
  BY <1>2 DEF NetworkStep, NetInvoke, Recheck, Request, EngineInvoke, EngineAct,
              EnginePost, Clean, Paths, Contents
<1>5. /\ phase \in {"invoked", "act", "hop", "request", "post"}
      /\ phase' \in {"act", "hop", "request", "post", "answered"}
      /\ phase' \in {"act", "hop", "request"} => UNCHANGED effect
      /\ phase' = "act" => phase = "invoked"
      /\ phase' = "post" => adapter = "browser.engine"
      /\ adapter # "browser.engine" => UNCHANGED effect /\ phase # "post" /\ phase # "act"
  BY DEF NetworkStep, NetInvoke, Recheck, Request, EngineInvoke, EngineAct, EnginePost,
         Fetches, At, Answer, Fail, Raise, Clean
<1>6. answer' \in Result
  <2>1. \/ UNCHANGED answer
        \/ \E o \in {"SUCCESS", "FAILURE", "UNKNOWN"}, m \in Markers, b \in BOOLEAN :
              answer' = [outcome |-> o, post |-> m, status |-> b]
    BY DEF NetworkStep, NetInvoke, Recheck, Request, EngineInvoke, EngineAct, EnginePost,
           Answer, Fail, Raise, Fetched, Markers
  <2> QED  BY <1>2, <2>1, ResultShape
<1>7. FamilyOf[adapter] = call.family \/ phase' = "answered"
  <2>1. SUFFICES ASSUME FamilyOf[adapter] # call.family PROVE phase' = "answered"
    OBVIOUS
  <2>2. phase = "invoked" /\ ~call.scoped /\ adapter = "network.local"
    BY <1>1, <1>5, <2>1 DEF Inv, SelectInv, Stray
  <2>3. NetInvoke /\ NetRefuses
    BY <2>2 DEF NetworkStep, Recheck, Request, EngineInvoke, EngineAct, EnginePost, At,
           NetRefuses, Refuses
  <2> QED  BY <2>3 DEF NetInvoke, Answer, Fail, Raise
<1> QED  BY <1>1, <1>2, <1>3, <1>4, <1>5, <1>6, <1>7 DEF Within

LEMMA ToolWithin ==
    ASSUME Inv, ToolStep
    PROVE  /\ Within /\ adapter = "tool_executor"
           /\ UNCHANGED <<files, target, started, dns, sent, hop>>
           /\ phase' \in {"act", "answered"}
           /\ phase' = "act" => phase = "invoked" /\ UNCHANGED <<effect, handled>>
<1>1. /\ adapter = "tool_executor" /\ phase \in {"invoked", "act"}
      /\ phase' \in {"act", "answered"}
      /\ phase' = "act" => phase = "invoked" /\ UNCHANGED <<effect, handled>>
  BY DEF ToolStep, AdapterChecks, Rejected, RunHandler, At, Answer, Fail, Raise
<1>2. UNCHANGED <<call, platform, adapter, verdict, files, target, started, dns, sent, hop>>
  BY DEF ToolStep, AdapterChecks, Rejected, RunHandler, ToolRest, control, world
<1>3. answer \in Result /\ effect \in BOOLEAN /\ handled \in BOOLEAN
  BY DEF Inv, TypeInv, TypeOK, Result, Markers
<1>4. effect' \in BOOLEAN /\ handled' \in BOOLEAN
  BY <1>3 DEF ToolStep, AdapterChecks, Rejected, RunHandler
<1>5. answer' \in Result
  <2>1. \/ UNCHANGED answer
        \/ \E o \in {"SUCCESS", "FAILURE", "UNKNOWN"}, b \in BOOLEAN :
              answer' = [outcome |-> o, post |-> "none", status |-> b]
    BY DEF ToolStep, AdapterChecks, Rejected, RunHandler, Answer, Fail, Raise
  <2>2. "none" \in Markers
    BY DEF Markers
  <2> QED  BY <1>3, <2>1, <2>2, ResultShape
<1> QED  BY <1>1, <1>2, <1>3, <1>4, <1>5 DEF Within

-----------------------------------------------------------------------------
(* Steps of the supervisor, of the outside world and crashes *)

\* A step that moves on without touching the call's course.
Moves(from, to) ==
    /\ phase \in from /\ phase' \in to
    /\ UNCHANGED <<call, platform, world, hop, answer, effect, handled, verdict, meddles>>

Phases == {"new", "refused", "receipt", "invoked", "act", "hop", "request", "post",
           "answered", "down_early", "down_invoked", "final"}

LEMMA TypeOKNext ==
    ASSUME call' \in Contracts, platform' \in {"Linux", "Darwin", "Windows", "other"},
           phase' \in Phases,
           files' \in [Paths -> Contents], target' \in {"alive", "gone", "foreign"},
           started' \in 0 .. 2, dns' \in [Hosts -> {"public", "private"}],
           answer' \in Result, effect' \in BOOLEAN, handled' \in BOOLEAN,
           verdict' \in Verdicts, meddles' \in 0 .. MaxMeddles
    PROVE  TypeOK'
BY Zenon DEF TypeOK, Phases, Result, Markers, Verdicts

LEMMA TypeOKParts ==
    ASSUME TypeOK
    PROVE  /\ call \in Contracts /\ platform \in {"Linux", "Darwin", "Windows", "other"}
           /\ phase \in Phases
           /\ files \in [Paths -> Contents] /\ target \in {"alive", "gone", "foreign"}
           /\ started \in 0 .. 2 /\ dns \in [Hosts -> {"public", "private"}]
           /\ answer \in Result /\ effect \in BOOLEAN /\ handled \in BOOLEAN
           /\ verdict \in Verdicts /\ meddles \in 0 .. MaxMeddles
BY Zenon DEF TypeOK, Phases, Result, Markers, Verdicts

LEMMA MoveInv ==
    ASSUME Inv, NEW from, NEW to, Moves(from, to),
           to \subseteq Phases \ {"act", "hop", "request", "post", "answered", "final"},
           from \subseteq Phases \ {"final"},
           to \cap {"receipt", "invoked", "down_early"} # {} => from \subseteq Untried,
           to \cap Untried # {} => from \subseteq Untried,
           adapter' \in DOMAIN FamilyOf \cup {"none"},
           SelectInv'
    PROVE  Inv'
<1>1. TypeInv'
  <2>1. phase' \in Phases
    BY DEF Moves
  <2>2. TypeOK'
    BY <2>1, TypeOKParts, TypeOKNext DEF Inv, TypeInv, Moves, world
  <2> QED  BY <2>2, Zenon DEF Inv, TypeInv, Moves, world
<1>2. QuietInv'
  BY DEF Inv, QuietInv, Untried, Moves, world
<1>3. HopInv'
  BY DEF Inv, HopInv, EveryHopChecked, Moves, world
<1>4. EvidenceInv'
  BY DEF EvidenceInv, Moves
<1>5. VerdictInv'
  BY DEF Inv, VerdictInv, ReconciledFailureIsSafe, FailureIsKnown, Moves
<1> QED  BY <1>1, <1>2, <1>3, <1>4, <1>5 DEF Inv

LEMMA RefusedInv == ASSUME Inv, Refused PROVE Inv'
<1>1. Moves({"new"}, {"refused"})
  BY DEF Refused, Moves, control
<1>2. SelectInv' /\ adapter' \in DOMAIN FamilyOf \cup {"none"}
  BY DEF SelectInv, Refused, control, Inv, TypeInv
<1> QED  BY <1>1, <1>2, MoveInv DEF Phases, Untried

LEMMA PersistReceiptInv == ASSUME Inv, PersistReceipt PROVE Inv'
<1>1. Moves({"new"}, {"receipt"})
  BY DEF PersistReceipt, Moves
<1>2. PICK i \in DOMAIN Registered : Selects(i) /\ adapter' = Registered[i]
  BY DEF PersistReceipt
<1>3. call \in Contracts /\ platform \in {"Linux", "Darwin", "Windows", "other"}
  BY DEF Inv, TypeInv, TypeOK
<1>4. SelectInv' /\ adapter' \in DOMAIN FamilyOf \cup {"none"}
  BY <1>2, <1>3, SelectionFits DEF SelectInv, Stray, PersistReceipt
<1> QED  BY <1>1, <1>4, MoveInv DEF Phases, Untried

LEMMA MarkInvokedInv == ASSUME Inv, MarkInvoked PROVE Inv'
<1>1. Moves({"receipt"}, {"invoked"})
  BY DEF MarkInvoked, Moves, control
<1>2. SelectInv' /\ adapter' \in DOMAIN FamilyOf \cup {"none"}
  BY DEF SelectInv, Stray, MarkInvoked, control, Inv, TypeInv
<1> QED  BY <1>1, <1>2, MoveInv DEF Phases, Untried

LEMMA CrashInv == ASSUME Inv, Crash PROVE Inv'
<1>1. SelectInv' /\ adapter' \in DOMAIN FamilyOf \cup {"none"}
  BY DEF SelectInv, Stray, Crash, control, Inv, TypeInv
<1>2. CASE phase = "receipt"
  <2>1. Moves({"receipt"}, {"down_early"})
    BY <1>2 DEF Crash, Moves, control
  <2> QED  BY <1>1, <2>1, MoveInv DEF Phases, Untried
<1>3. CASE phase # "receipt"
  <2>1. Moves({"invoked", "act", "hop", "request", "post", "answered"}, {"down_invoked"})
    BY <1>3 DEF Crash, Moves, control
  <2> QED  BY <1>1, <2>1, MoveInv DEF Phases, Untried
<1> QED  BY <1>2, <1>3

\* A verdict ends a contract, and only its explanation has to be found.
LEMMA DecideInv ==
    ASSUME Inv, NEW o \in {"none", "SUCCESS", "FAILURE", "UNKNOWN"},
           NEW by \in {"verification", "reconciler"}, Decide(o, by),
           phase \notin {"new", "refused", "final"},
           by = "reconciler" /\ o = "FAILURE" => ~effect /\ ~handled,
           by = "verification" /\ o = "FAILURE" /\ effect => Explained
    PROVE  Inv'
<1>1. TypeInv'
  <2>1. verdict' \in Verdicts /\ phase' \in Phases
    BY DEF Decide, Verdicts, Phases
  <2>2. TypeOK'
    BY <2>1, TypeOKParts, TypeOKNext DEF Inv, TypeInv, Decide, control, world
  <2> QED  BY <2>2, Zenon DEF Inv, TypeInv, Decide, control, world
<1>2. SelectInv' /\ QuietInv' /\ EvidenceInv'
  BY DEF Inv, SelectInv, Stray, QuietInv, EvidenceInv, Untried, Decide, control
<1>3. HopInv'
  BY DEF Inv, HopInv, EveryHopChecked, Decide, world
<1>4. VerdictInv'
  <2>1. ReconciledFailureIsSafe'
    BY DEF ReconciledFailureIsSafe, Decide
  <2>2. FailureIsKnown'
    BY DEF FailureIsKnown, Explained, Op, Decide, control
  <2> QED  BY <2>1, <2>2 DEF VerdictInv, Decide
<1> QED  BY <1>1, <1>2, <1>3, <1>4 DEF Inv

LEMMA FinalizeInv == ASSUME Inv, Finalize PROVE Inv'
<1>1. evaluate_verification \in {"none", "SUCCESS", "FAILURE", "UNKNOWN"}
  BY DEF evaluate_verification, Inv, TypeInv, TypeOK
<1>2. evaluate_verification = "FAILURE" /\ effect => Explained
  BY DEF Finalize, Inv, EvidenceInv
<1> QED  BY <1>1, <1>2, DecideInv DEF Finalize

\* Only an attempt whose adapter was never called is reported as failed.
LEMMA ReconcileInv == ASSUME Inv, Reconcile PROVE Inv'
<1>1. observe \in {"SUCCESS", "FAILURE", "UNKNOWN"}
  BY DEF observe, observe_file, Open
<1>2. observe = "FAILURE" => phase # "down_invoked"
  BY DEF observe, observe_file, Open, invoked
<1>3. observe = "FAILURE" => ~effect /\ ~handled
  BY <1>2 DEF Reconcile, Inv, QuietInv
<1> QED  BY <1>1, <1>3, DecideInv DEF Reconcile

LEMMA MeddleInv == ASSUME Inv, Meddle PROVE Inv'
<1>1. TypeInv'
  <2>0. /\ files \in [Paths -> Contents] /\ target \in {"alive", "gone", "foreign"}
        /\ dns \in [Hosts -> {"public", "private"}] /\ meddles \in 0 .. MaxMeddles
    BY DEF Inv, TypeInv, TypeOK
  <2>1. /\ files' \in [Paths -> Contents] /\ target' \in {"alive", "gone", "foreign"}
        /\ dns' \in [Hosts -> {"public", "private"}]
    BY <2>0 DEF Meddle, Contents
  <2>2. meddles' \in 0 .. MaxMeddles
    BY <2>0, PlaneAssumption DEF Meddle
  <2>3. TypeOK'
    BY <2>1, <2>2, TypeOKParts, TypeOKNext DEF Inv, TypeInv, Meddle, control
  <2> QED  BY <2>3, Zenon DEF Inv, TypeInv, Meddle, control
<1>2. SelectInv' /\ QuietInv' /\ HopInv'
  BY DEF Inv, SelectInv, Stray, QuietInv, HopInv, EveryHopChecked, Meddle, control
<1>3. EvidenceInv'
  <2>0. meddles \in 0 .. MaxMeddles
    BY DEF Inv, TypeInv, TypeOK
  <2>1. meddles' > 0
    BY <2>0, PlaneAssumption DEF Meddle
  <2> QED  BY <2>1 DEF EvidenceInv, Explained
<1>4. VerdictInv'
  BY DEF Inv, VerdictInv, ReconciledFailureIsSafe, FailureIsKnown, Meddle
<1> QED  BY <1>1, <1>2, <1>3, <1>4 DEF Inv

-----------------------------------------------------------------------------
(* Steps of the adapters *)

\* What an adapter's step leaves to be shown: that it did not act early, that
\* its requests are in order, and that its evidence explains a FAILURE.
LEMMA WithinInv ==
    ASSUME Inv, Within, UNCHANGED meddles,
           files' \in [Paths -> Contents], target' \in {"alive", "gone", "foreign"},
           started' \in 0 .. 2, UNCHANGED dns,
           hop' \in [host : Hosts, count : Nat, pin : {"none", "public", "private"}],
           sent' \in Seq({"none", "public", "private"}),
           phase' \in {"act", "hop", "request"} => ~effect' /\ ~handled',
           FamilyOf[adapter] = call.family \/ phase' = "answered",
           HopInv', EvidenceInv'
    PROVE  Inv'
<1>1. TypeInv'
  <2>1. phase' \in Phases
    BY DEF Within, Phases
  <2>2. TypeOK'
    BY <2>1, TypeOKParts, TypeOKNext DEF Inv, TypeInv, Within
  <2> QED  BY <2>2 DEF Inv, TypeInv, Within
<1>2. SelectInv'
  BY DEF Inv, SelectInv, Stray, Within
<1>3. QuietInv'
  BY DEF QuietInv, Untried, Within
<1>4. VerdictInv'
  BY DEF Inv, VerdictInv, ReconciledFailureIsSafe, FailureIsKnown, Within
<1> QED  BY <1>1, <1>2, <1>3, <1>4 DEF Inv

LEMMA FilesystemInv ==
    ASSUME Inv, FilesystemStep, UNCHANGED meddles PROVE Inv'
<1>1. /\ Within /\ adapter = "filesystem.local"
      /\ UNCHANGED <<target, started, dns, sent, hop, handled>>
      /\ files' \in [Paths -> Contents]
      /\ phase' \in {"act", "post", "answered"}
      /\ phase' = "act" => phase = "invoked" /\ UNCHANGED effect
      /\ call.family = "filesystem" \/ (phase' = "answered" /\ UNCHANGED effect)
  BY FilesystemWithin
<1>2. call.family = "filesystem" => call.path \in Paths /\ call.dest \in Paths
  BY ContractShape DEF Inv, TypeInv, TypeOK
<1>3. phase' = "act" => ~effect' /\ ~handled'
  BY <1>1 DEF Inv, QuietInv, Untried
<1>4. HopInv'
  BY <1>1 DEF Inv, HopInv, EveryHopChecked, Within
<1>5. EvidenceInv'
  <2>0. CASE call.family # "filesystem"
    <3>1. ~effect'
      <4>1. FsInvoke
        BY <2>0, FilesystemStray
      <4> QED  BY <1>1, <2>0, <4>1 DEF FsInvoke, At, Inv, QuietInv, Untried
    <3> QED  BY <3>1, <1>1, <2>0 DEF EvidenceInv
  <2> SUFFICES ASSUME call.family = "filesystem" PROVE EvidenceInv'
    BY <2>0
  <2>1. CASE phase' = "post"
    <3>1. phase = "act" /\ Op(WRITE_OPS)
      BY <2>1 DEF FilesystemStep, FsInvoke, InspectPath, ReadFile, Write, Create, Delete,
             Copy, Move, FsPost, WriteText, Answer, Fail, Raise, At, Op, WRITE_OPS
    <3>2. files \in [Paths -> Contents]
      BY DEF Inv, TypeInv, TypeOK
    <3>3. CASE Op({"copy", "move"})
      BY <2>1, <3>3, <1>1, <1>2 DEF EvidenceInv, Explained, Op, Within
    <3>4. CASE ~Op({"copy", "move"})
      <4>1. Write \/ Create \/ Delete
        BY <3>1, <3>4, <2>1 DEF FilesystemStep, FsInvoke, InspectPath, ReadFile, Copy, Move,
               FsPost, Answer, Fail, Raise, At, Op, WRITE_OPS
      <4>2. Holds'
        BY <4>1, <1>1, <1>2, <3>2, <2>1 DEF Write, Create, Delete, WriteText, Put, Holds, Op,
               IsFile, Raise, Answer, Within
      <4> QED  BY <4>2, <2>1 DEF EvidenceInv
    <3> QED  BY <3>3, <3>4
  <2>2. CASE phase' = "answered"
    <3>1. SUFFICES ASSUME effect', (evaluate_verification = "FAILURE")' PROVE Explained'
      BY <2>2 DEF EvidenceInv
    <3>2. CASE Op({"copy", "move"})
      BY <3>2, <1>1, <1>2 DEF Explained, Op, Within
    <3>3. CASE FsPost /\ ~Op({"copy", "move"})
      <4>1. CASE answer' = [outcome |-> "SUCCESS", post |-> Marker, status |-> FALSE]
        <5>1. /\ Required' \subseteq {Marker, "exists"}
              /\ "exists" \in Required' => Op({"write", "create"})
          BY <1>1, <1>2 DEF Required, Within, Op, Marker
        <5>2. \A p \in Required' : Met(p)'
          BY <5>1, <4>1 DEF Met, Marker, Op
        <5>3. (evaluate_verification = "SUCCESS")'
          BY <5>2, <4>1, <1>1, <1>2 DEF evaluate_verification, Within
        <5> QED  BY <5>3, <3>1
      <4>2. CASE ~Holds
        BY <4>2, <3>3, <1>1 DEF FsPost, At, Inv, EvidenceInv, Explained
      <4>3. CASE Holds /\ Raise /\ Op({"write"})
        BY <4>3, <3>1, <1>1, <1>2 DEF Raise, Answer, evaluate_verification, Op,
               SIDE_EFFECT_FREE_OPERATIONS
      <4> QED  BY <4>1, <4>2, <4>3, <3>3 DEF FsPost, Answer, Op
    <3>4. CASE ~FsPost /\ ~Op({"copy", "move"})
      <4>1. ~effect
        BY <3>4 DEF FilesystemStep, FsInvoke, InspectPath, ReadFile, Write, Create, Delete,
               Copy, Move, At, Inv, QuietInv, Untried, Op
      <4>2. Raise /\ Op({"write", "create"})
        BY <4>1, <3>1, <3>4, <2>2 DEF FilesystemStep, FsInvoke, InspectPath, ReadFile, Write,
               Create, Delete, Copy, Move, WriteText, Acted, Op
      <4> QED
        BY <4>2, <3>1, <1>1, <1>2 DEF Raise, Answer, evaluate_verification, Op,
               SIDE_EFFECT_FREE_OPERATIONS
    <3> QED  BY <3>2, <3>3, <3>4
  <2>3. CASE phase' = "act"
    BY <2>3 DEF EvidenceInv
  <2> QED  BY <1>1, <2>1, <2>2, <2>3
<1>6. FamilyOf[adapter] = call.family \/ phase' = "answered"
  BY <1>1 DEF FamilyOf
<1> QED
  BY <1>1, <1>3, <1>4, <1>5, <1>6, WithinInv DEF Inv, TypeInv, TypeOK

\* A host adapter answers in one step: a FAILURE behind which a program was
\* started or signalled carries the status it ended with.
LEMMA HostInv ==
    ASSUME Inv, HostStep, UNCHANGED meddles PROVE Inv'
<1>1. /\ Within /\ phase = "invoked" /\ phase' = "answered"
      /\ FamilyOf[adapter] \in {"process", "application"}
      /\ UNCHANGED <<files, dns, sent, hop, handled>>
      /\ target' \in {"alive", "gone", "foreign"} /\ started' \in 0 .. 2
  BY HostWithin
<1>2. ~effect /\ call.family \in {"process", "application"}
  BY <1>1 DEF Inv, QuietInv, Untried, SelectInv, Stray, FamilyOf
<1>3. HopInv'
  BY <1>1 DEF Inv, HopInv, EveryHopChecked
<1>4. EvidenceInv'
  <2>1. SUFFICES ASSUME effect', (evaluate_verification = "FAILURE")' PROVE answer'.status
    BY <1>1 DEF EvidenceInv, Explained
  <2>2. \/ answer'.status
        \/ answer'.outcome = "UNKNOWN"
        \/ /\ answer'.outcome = "SUCCESS"
           /\ \/ adapter = "process.local"
              \/ Op({"terminate"})
              \/ Op({"launch", "activate"}) /\ answer'.post = "open_accepted"
    <3>1. ~Untouched
      BY <2>1, <1>2 DEF Untouched
    <3>2. CASE RunProcess
      BY <3>1, <3>2 DEF RunProcess, Answer, At
    <3>3. CASE Launch \/ LaunchWindows \/ LaunchOpen
      BY <3>1, <3>3 DEF Launch, LaunchWindows, LaunchOpen, Answer
    <3>4. CASE Terminate \/ TerminateMacOS \/ TerminateWindows
      <4>1. Op({"terminate"})
        BY <3>4 DEF Terminate, TerminateMacOS, TerminateWindows
      <4>2. CASE Signal
        <5>1. Answer("SUCCESS", "terminate_requested", FALSE)
          BY <3>1, <4>2, Zenon DEF Signal
        <5>2. answer'.outcome = "SUCCESS"
          BY <5>1 DEF Answer
        <5> QED  BY <5>2, <4>1
      <4>3. CASE TerminateWindows
        BY <3>1, <4>1, <4>3 DEF TerminateWindows, Answer
      <4> QED  BY <3>4, <4>2, <4>3 DEF Terminate, TerminateMacOS
    <3>5. ~Inspect /\ ~Simulate
      BY <3>1 DEF Inspect, Simulate
    <3> QED  BY <3>2, <3>3, <3>4, <3>5 DEF HostStep
  <2>3. CASE answer'.outcome = "UNKNOWN"
    BY <2>1, <2>3 DEF evaluate_verification
  <2>4. CASE /\ answer'.outcome = "SUCCESS"
             /\ adapter = "process.local" \/ Op({"terminate"})
    <3>1. Required' = {}
      <4>1. adapter = "process.local" => call.family = "process"
        BY <1>1 DEF Inv, SelectInv, FamilyOf, Stray
      <4> QED  BY <4>1, <2>4, <1>1, <1>2 DEF Required, Within, Op
    <3> QED  BY <3>1, <2>1, <2>4, <1>1, <1>2 DEF evaluate_verification, Within
  <2>5. CASE /\ answer'.outcome = "SUCCESS"
             /\ Op({"launch", "activate"}) /\ answer'.post = "open_accepted"
    <3>1. Required' \subseteq {"open_accepted"}
      BY <2>5, <1>1, <1>2 DEF Required, Within, Op
    <3> QED  BY <3>1, <2>1, <2>5, <1>1, <1>2 DEF evaluate_verification, Met, Within
  <2> QED  BY <2>2, <2>3, <2>4, <2>5
<1>5. files' \in [Paths -> Contents]
      /\ hop' \in [host : Hosts, count : Nat, pin : {"none", "public", "private"}]
      /\ sent' \in Seq({"none", "public", "private"})
  BY <1>1 DEF Inv, TypeInv, TypeOK
<1> QED  BY <1>1, <1>3, <1>4, <1>5, WithinInv

\* One request per hop, to the address that hop's check returned.
LEMMA NetworkInv ==
    ASSUME Inv, NetworkStep, UNCHANGED meddles PROVE Inv'
<1>1. /\ Within /\ adapter \in {"network.local", "browser.local", "browser.engine"}
      /\ UNCHANGED <<target, started, dns, handled>>
      /\ files' \in [Paths -> Contents]
      /\ phase' \in {"act", "hop", "request"} => UNCHANGED effect
      /\ phase' = "act" => phase = "invoked"
      /\ phase' = "post" => adapter = "browser.engine"
      /\ adapter # "browser.engine" => UNCHANGED effect /\ phase # "post" /\ phase # "act"
      /\ FamilyOf[adapter] = call.family \/ phase' = "answered"
  BY NetworkWithin
<1>2. adapter # "browser.engine" => ~effect
  BY <1>1 DEF Within, Inv, QuietInv, Untried
<1>3. phase' \in {"act", "hop", "request"} => ~effect' /\ ~handled'
  <2>1. phase' \in {"hop", "request"} => phase \in {"invoked", "hop", "request"}
    BY DEF NetworkStep, NetInvoke, Recheck, Request, EngineInvoke, EngineAct, EnginePost,
           At, Answer, Fail, Raise
  <2> QED  BY <1>1, <2>1 DEF Inv, QuietInv, Untried
<1>4. /\ sent \in Seq({"none", "public", "private"}) /\ dns \in [Hosts -> {"public", "private"}]
      /\ hop \in [host : Hosts, count : Nat, pin : {"none", "public", "private"}]
      /\ MaxRedirects \in Nat
  <2>1. MaxRedirects \in Nat
    BY PlaneAssumption
  <2> QED  BY <2>1 DEF Inv, TypeInv, TypeOK
<1>5. /\ hop' \in [host : Hosts, count : Nat, pin : {"none", "public", "private"}]
      /\ sent' \in Seq({"none", "public", "private"})
      /\ HopInv'
  <2>1. CASE Request
    <3>1. /\ phase = "request" /\ hop.pin = "public" /\ Len(sent) = hop.count
          /\ hop.count <= MaxRedirects /\ \A i \in DOMAIN sent : sent[i] = "public"
      BY <2>1 DEF Request, Inv, HopInv, EveryHopChecked
    <3>2. /\ sent' = Append(sent, "public") /\ Len(sent') = hop.count + 1
          /\ sent' \in Seq({"none", "public", "private"})
          /\ \A i \in DOMAIN sent' : sent'[i] = "public"
      BY <2>1, <3>1, <1>4 DEF Request
    <3>3. CASE phase' = "hop"
      BY <2>1, <3>1, <3>2, <3>3, <1>4 DEF Request, Follows, Answer, Fail, HopInv, EveryHopChecked
    <3>4. CASE phase' # "hop"
      BY <2>1, <3>1, <3>2, <3>4, <1>4 DEF Request, Answer, Fail, HopInv, EveryHopChecked
    <3> QED  BY <3>3, <3>4
  <2>2. CASE Recheck
    <3>1. UNCHANGED sent /\ phase = "hop" /\ phase' \in {"request", "answered"}
      BY <2>2 DEF Recheck, Answer, Fail, Raise
    <3>2. CASE phase' = "request"
      <4>1. hop' = [hop EXCEPT !.pin = dns[hop.host]] /\ dns[hop.host] = "public"
        BY <2>2, <3>2 DEF Recheck, Passes, Answer, Fail, Raise
      <4> QED  BY <3>1, <3>2, <4>1, <1>4 DEF Inv, HopInv, EveryHopChecked
    <3>3. CASE phase' = "answered"
      BY <2>2, <3>1, <3>3, <1>4 DEF Recheck, Inv, HopInv, EveryHopChecked
    <3> QED  BY <3>1, <3>2, <3>3
  <2>3. CASE NetInvoke
    <3>1. /\ UNCHANGED sent /\ sent = <<>> /\ phase' \in {"hop", "answered"}
          /\ hop' = NoHop \/ UNCHANGED hop
          /\ phase' = "hop" => hop' = NoHop
      BY <2>3 DEF NetInvoke, Answer, Fail, Raise, Inv, QuietInv, Untried
    <3>2. NoHop \in [host : Hosts, count : Nat, pin : {"none", "public", "private"}]
          /\ NoHop.count = 0
      BY DEF NoHop, Hosts
    <3> QED  BY <3>1, <3>2, <1>4 DEF HopInv, EveryHopChecked
  <2>4. CASE EngineInvoke \/ EngineAct \/ EnginePost
    <3>1. UNCHANGED <<sent, hop>> /\ phase' \in {"act", "post", "answered"}
      BY <2>4 DEF EngineInvoke, EngineAct, EnginePost, EngineRest, Answer, Fail
    <3> QED  BY <3>1, <1>4 DEF Inv, HopInv, EveryHopChecked
  <2> QED  BY <2>1, <2>2, <2>3, <2>4 DEF NetworkStep
<1>6. EvidenceInv'
  BY <1>1, <1>2 DEF EvidenceInv, Explained, Within
<1>7. target' \in {"alive", "gone", "foreign"} /\ started' \in 0 .. 2
  BY <1>1 DEF Inv, TypeInv, TypeOK
<1> QED  BY <1>1, <1>3, <1>5, <1>6, <1>7, WithinInv

LEMMA ToolInv ==
    ASSUME Inv, ToolStep, UNCHANGED meddles PROVE Inv'
<1>1. /\ Within /\ adapter = "tool_executor"
      /\ UNCHANGED <<files, target, started, dns, sent, hop>>
      /\ phase' \in {"act", "answered"}
      /\ phase' = "act" => phase = "invoked" /\ UNCHANGED <<effect, handled>>
  BY ToolWithin
<1>2. phase' = "act" => ~effect' /\ ~handled'
  BY <1>1 DEF Inv, QuietInv, Untried
<1>3. HopInv' /\ EvidenceInv'
  BY <1>1 DEF Inv, HopInv, EveryHopChecked, EvidenceInv, Explained, Within
<1>4. /\ files' \in [Paths -> Contents] /\ target' \in {"alive", "gone", "foreign"}
      /\ started' \in 0 .. 2 /\ sent' \in Seq({"none", "public", "private"})
      /\ hop' \in [host : Hosts, count : Nat, pin : {"none", "public", "private"}]
  BY <1>1 DEF Inv, TypeInv, TypeOK
<1>5. FamilyOf[adapter] = call.family \/ phase' = "answered"
  BY <1>1 DEF Within, Inv, SelectInv, Stray
<1> QED  BY <1>1, <1>2, <1>3, <1>4, <1>5, WithinInv

-----------------------------------------------------------------------------
(* The theorems *)

LEMMA NextInv == ASSUME Inv, [Next]_allvars PROVE Inv'
<1>1. CASE Invoke
  BY <1>1, FilesystemInv, HostInv, NetworkInv, ToolInv DEF Invoke
<1>2. CASE Refused \/ PersistReceipt \/ MarkInvoked \/ Finalize \/ Reconcile \/ Crash \/ Meddle
  BY <1>2, RefusedInv, PersistReceiptInv, MarkInvokedInv, FinalizeInv, ReconcileInv,
     CrashInv, MeddleInv
<1>3. CASE UNCHANGED allvars
  <2>1. TypeInv'
    <3>1. TypeOK'
      BY <1>3, TypeOKParts, TypeOKNext DEF Inv, TypeInv, allvars, vars, control, world
    <3> QED  BY <1>3, <3>1 DEF Inv, TypeInv, allvars, vars, control, world
  <2>2. SelectInv' /\ QuietInv' /\ HopInv'
    BY <1>3 DEF Inv, SelectInv, Stray, QuietInv, HopInv, EveryHopChecked, allvars, vars, control, world
  <2>3. EvidenceInv'
    <3>1. Holds' = Holds /\ Explained' = Explained /\ Op({"copy", "move"})' = Op({"copy", "move"})
      BY <1>3 DEF Holds, Explained, Op, IsFile, allvars, vars, control, world
    <3>2. evaluate_verification' = evaluate_verification
      BY <1>3 DEF evaluate_verification, Required, Met, Marker, Op, allvars, vars, control
    <3> QED  BY <1>3, <3>1, <3>2 DEF Inv, EvidenceInv, allvars, vars, control
  <2>4. VerdictInv'
    BY <1>3 DEF Inv, VerdictInv, ReconciledFailureIsSafe, FailureIsKnown, Op, allvars, vars,
           control
  <2> QED  BY <2>1, <2>2, <2>3, <2>4 DEF Inv
<1> QED  BY <1>1, <1>2, <1>3 DEF Next, Supervise, Done

LEMMA InvHolds == Spec => []Inv
BY InitInv, NextInv, PTL DEF Spec

\* Every state of the app plane has the types its modules declare.
THEOREM TypeCorrect == Spec => []TypeOK
<1>1. Inv => TypeOK
  BY DEF Inv, TypeInv
<1> QED  BY <1>1, InvHolds, PTL

\* A FAILURE behind which something was done is one whose end was seen, or
\* comes from another program's change or from a call whose errors the adapter
\* itself calls FAILURE, however often others interfere.
THEOREM FailuresAreKnown == Spec => []FailureIsKnown
<1>1. Inv => FailureIsKnown
  BY DEF Inv, VerdictInv
<1> QED  BY <1>1, InvHolds, PTL

\* A reconciler that reports FAILURE after a crash is right: the adapter had
\* not been called.
THEOREM ReconciledFailuresAreSafe == Spec => []ReconciledFailureIsSafe
<1>1. Inv => ReconciledFailureIsSafe
  BY DEF Inv, VerdictInv
<1> QED  BY <1>1, InvHolds, PTL

\* However names resolve between the hops, every request goes to an address
\* that passed the policy, and there are at most max_redirects + 1 of them.
THEOREM HopsAreChecked == Spec => []EveryHopChecked
<1>1. Inv => EveryHopChecked
  BY DEF Inv, HopInv
<1> QED  BY <1>1, InvHolds, PTL

=============================================================================
