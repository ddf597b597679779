---------------------------- MODULE CustomAgents ----------------------------
(***************************************************************************)
(* agents/custom/registry.py, loader.py and api/routes/custom_agents.py:   *)
(* definitions of custom agents, kept in memory and in a file each, and    *)
(* the runs of them.  Every change of a definition has a number of its     *)
(* own, so the numbers order them.  Registry calls do not await: they are  *)
(* steps; a run waits for its agent between two entries of the audit log.  *)
(***************************************************************************)
EXTENDS Integers, Sequences

CONSTANTS Definitions,   \* <<tenant, id>> of definitions
          Folder,        \* YAML files in order of name: [of, valid]
          MaxChanges,    \* bound on changes
          MaxCustomRuns, \* bound on runs of a definition
          MaxFaults      \* bound on failed writes, failed unlinks and restarts

ASSUME CustomAgentsAssumption ==
  /\ MaxChanges \in Nat /\ MaxCustomRuns \in Nat /\ MaxFaults \in Nat
  /\ Folder \in Seq([of : Definitions, valid : BOOLEAN])

Nothing == 0
Torn == -1   \* a file that does not parse

VARIABLES
  configs,     \* CustomAgentRegistry._configs: the change in memory, by definition
  agentFiles,  \* its file
  changes,     \* history: changes so far
  answered,    \* history: the last change answered with success, by definition
  whole,       \* history: no change failed since
  running,     \* runs between their two entries
  traced,      \* history: audit entries of runs, "started" and final
  cut,         \* history: runs a restart ended
  faults

customVars == <<configs, agentFiles, changes, answered, whole, running, traced, cut, faults>>

Each(x) == [d \in Definitions |-> x]

CustomInit ==
  /\ configs = Each(Nothing) /\ agentFiles = Each(Nothing)
  /\ changes = 0
  /\ answered = Each(0) /\ whole = Each(TRUE)
  /\ running = Each(0)
  /\ traced = Each([started |-> 0, final |-> 0])
  /\ cut = Each(0)
  /\ faults = 0

\* _save_to_disk that succeeds
Saved(d, n) == n

\* What register leaves if it raises: the definition in memory, and the file as it
\* was (its path is refused, no directory can be made) or cut off
RegisterFails(d) ==
  /\ faults < MaxFaults
  /\ faults' = faults + 1
  /\ configs' = [configs EXCEPT ![d] = changes + 1]
  /\ \E left \in {agentFiles[d], Torn} : agentFiles' = [agentFiles EXCEPT ![d] = left]
  /\ whole' = [whole EXCEPT ![d] = FALSE]
  /\ UNCHANGED answered

Register(d) ==
  /\ configs' = [configs EXCEPT ![d] = changes + 1]
  /\ agentFiles' = [agentFiles EXCEPT ![d] = Saved(d, changes + 1)]
  /\ answered' = [answered EXCEPT ![d] = changes + 1]
  /\ whole' = [whole EXCEPT ![d] = TRUE]
  /\ UNCHANGED faults

\* upload_custom_agent by an admin, for the tenant of the token; a refused YAML
\* changes nothing
Upload(d) ==
  /\ changes < MaxChanges
  /\ changes' = changes + 1
  /\ Register(d) \/ RegisterFails(d)
  /\ UNCHANGED <<running, traced, cut>>

\* The number of the definition that file i of the folder holds
NumberOf(i) == changes + i

\* load_from_directory: the valid files in order, the last of one definition wins;
\* every one is registered
LoadFolder ==
  LET read == {i \in DOMAIN Folder : Folder[i].valid}
      last(d) == {i \in read : Folder[i].of = d /\ \A j \in read : Folder[j].of = d => j <= i}
      take(f) == [d \in Definitions |->
                    IF last(d) = {} THEN f[d] ELSE NumberOf(CHOOSE i \in last(d) : TRUE)]
  IN /\ changes + Len(Folder) <= MaxChanges
     /\ changes' = changes + Len(Folder)
     /\ configs' = take(configs)
     /\ agentFiles' = take(agentFiles)
     /\ answered' = take(answered)
     /\ whole' = [d \in Definitions |-> whole[d] \/ last(d) # {}]
     /\ UNCHANGED <<running, traced, cut, faults>>

\* Mutant: the file stays
DeleteFromMemory(d) ==
  /\ agentFiles' = agentFiles
  /\ answered' = [answered EXCEPT ![d] = changes + 1]
  /\ whole' = [whole EXCEPT ![d] = TRUE]
  /\ UNCHANGED faults

\* The file of a definition taken out of memory is removed, or unlink raises
RemoveFile(d) ==
  \/ /\ agentFiles' = [agentFiles EXCEPT ![d] = Nothing]
     /\ answered' = [answered EXCEPT ![d] = changes + 1]
     /\ whole' = [whole EXCEPT ![d] = TRUE]
     /\ UNCHANGED faults
  \/ /\ faults < MaxFaults /\ agentFiles[d] # Nothing
     /\ faults' = faults + 1
     /\ whole' = [whole EXCEPT ![d] = FALSE]
     /\ UNCHANGED <<agentFiles, answered>>

\* delete_custom_agent of one that is there
Delete(d) ==
  /\ changes < MaxChanges /\ configs[d] # Nothing
  /\ changes' = changes + 1
  /\ configs' = [configs EXCEPT ![d] = Nothing]
  /\ RemoveFile(d)
  /\ UNCHANGED <<running, traced, cut>>

\* _load_from_disk
Loaded(f) == [d \in Definitions |-> IF f[d] = Torn THEN Nothing ELSE f[d]]

\* The process ends and starts again, perhaps while a definition was written
Restart ==
  /\ faults < MaxFaults
  /\ faults' = faults + 1
  /\ \/ UNCHANGED <<agentFiles, changes, whole>>
     \/ \E d \in Definitions :
          /\ changes < MaxChanges
          /\ changes' = changes + 1
          /\ \E left \in {Torn, changes + 1} : agentFiles' = [agentFiles EXCEPT ![d] = left]
          /\ whole' = [whole EXCEPT ![d] = FALSE]
  /\ configs' = Loaded(agentFiles')
  /\ cut' = [d \in Definitions |-> cut[d] + running[d]]
  /\ running' = Each(0)
  /\ UNCHANGED <<answered, traced>>

\* run_custom_agent: the instance holds the definition it was made from
StartRun(d) ==
  /\ configs[d] # Nothing /\ traced[d].started < MaxCustomRuns
  /\ running' = [running EXCEPT ![d] = @ + 1]
  /\ traced' = [traced EXCEPT ![d].started = @ + 1]
  /\ UNCHANGED <<configs, agentFiles, changes, answered, whole, cut, faults>>

\* do_work is done, or raised: "success" or "failure", the definition there or not
EndRun(d) ==
  /\ running[d] > 0
  /\ running' = [running EXCEPT ![d] = @ - 1]
  /\ traced' = [traced EXCEPT ![d].final = @ + 1]
  /\ UNCHANGED <<configs, agentFiles, changes, answered, whole, cut, faults>>

CustomNext ==
  \/ \E d \in Definitions : Upload(d) \/ Delete(d) \/ StartRun(d) \/ EndRun(d)
  \/ LoadFolder
  \/ Restart

CustomSpec == CustomInit /\ [][CustomNext]_customVars

-----------------------------------------------------------------------------
(***************************************************************************)
(* After a change answered with success, memory and file agree on it, over *)
(* any restarts, until a change of the definition fails.                   *)
(***************************************************************************)
AnsweredIsKept ==
  \A d \in Definitions :
     whole[d] => agentFiles[d] = configs[d] /\ configs[d] \in {answered[d], Nothing}

(***************************************************************************)
(* Failed writes, failed unlinks and restarts in the middle of a write may *)
(* lose a definition or bring in one whose answer was an error, but none   *)
(* older than the last change answered with success: what was replaced or  *)
(* deleted does not come back.                                             *)
(***************************************************************************)
NothingComesBack ==
  \A d \in Definitions : configs[d] # Nothing => configs[d] >= answered[d]

(***************************************************************************)
(* "audit log so usage is traceable" (custom_agents.py:203): every run has *)
(* its final entry, whatever became of the definition meanwhile, unless    *)
(* the process stopped.                                                    *)
(***************************************************************************)
RunsTraced ==
  \A d \in Definitions : traced[d].started = traced[d].final + running[d] + cut[d]

(***************************************************************************)
(* Memory, files and audit log tell the same of a definition.              *)
(***************************************************************************)
DefinitionsKept == AnsweredIsKept /\ NothingComesBack /\ RunsTraced
=============================================================================
