------------------------------ MODULE Worktrees ------------------------------
(****************************************************************************)
(* internal/worktree: Create, List, Remove and Reset of one Manager, which  *)
(* holds its mutex through each.  Every git command may fail, with or       *)
(* without its effect; the process may be restarted; and others create      *)
(* directories and branches under the same names.                           *)
(****************************************************************************)
EXTENDS FiniteSets

CONSTANT Names      \* names of worktrees, with their directory and branch

VARIABLES
    directory,      \* who made what is at the path: "none", "manager", "other"
    branch,         \* who made the branch opencode/<name>
    attached,       \* what git lists at the path: "none", or a worktree of this
                    \* branch ("manager") or of another ("other")
    dirty,          \* names whose worktree has changes, or was never populated
    owned,          \* Manager.owned
    doing,          \* the operation that holds the mutex: "none", "create", "remove", "reset"
    step, name,     \* where it is, and with which name
    force,          \* RemoveInput.Force
    answer          \* how the last operation has ended

treeVars == <<directory, branch, attached, dirty>>
worktreeVars == <<treeVars, owned, doing, step, name, force, answer>>

Makers == {"none", "manager", "other"}

WorktreeTypeOK ==
    /\ {directory, branch, attached} \subseteq [Names -> Makers]
    /\ dirty \subseteq Names /\ owned \subseteq Names /\ name \in Names
    /\ doing \in {"none", "create", "remove", "reset"}
    /\ step \in {"idle", "add", "verify", "populate", "compensate", "inspect",
                 "detach", "erase", "branch", "reset"}

WorktreeInit ==
    /\ directory = [n \in Names |-> "none"] /\ branch = [n \in Names |-> "none"]
    /\ attached = [n \in Names |-> "none"]
    /\ dirty = {} /\ owned = {}
    /\ doing = "none" /\ step = "idle" /\ name \in Names /\ force = FALSE
    /\ answer = "none"

Managed(n) == attached[n] = "manager"

Begin(operation, n, first) ==
    /\ doing = "none"
    /\ doing' = operation /\ name' = n /\ step' = first
    /\ answer' = "none"

\* The next step; or the operation returns, and its name keeps its record or
\* loses it.
Then(next) == step' = next /\ UNCHANGED <<owned, doing, name, force, answer>>
AnswerManager(how, records) ==
    /\ doing' = "none" /\ step' = "idle" /\ answer' = how
    /\ owned' = records
    /\ UNCHANGED <<name, force>>
Failed == AnswerManager("failed", owned)

------------------------------------------------------------------------------
(* Create.                                                                  *)

\* candidate: neither the directory nor the branch is there; a random suffix is
\* tried when they are.
Candidate(n) ==
    /\ directory[n] = "none" /\ branch[n] = "none"
    /\ Begin("create", n, "add")
    /\ UNCHANGED <<treeVars, owned, force>>

Added(n) ==
    /\ directory' = [directory EXCEPT ![n] = "manager"]
    /\ branch' = [branch EXCEPT ![n] = "manager"]
    /\ attached' = [attached EXCEPT ![n] = "manager"]
    /\ dirty' = dirty \cup {n}

\* git refuses a branch, a directory or an entry that exists.
Free(n) == directory[n] = "none" /\ branch[n] = "none" /\ attached[n] = "none"

Add ==
    /\ step = "add" /\ Free(name)
    /\ Added(name)
    /\ Then("verify")

\* Mutant of AddFails: what git may have left is cleaned up.
AddCompensated ==
    /\ step = "add"
    /\ UNCHANGED treeVars
    /\ Then("compensate")

\* git worktree add fails: refused, canceled before or after it had its effect,
\* or with the branch alone.  Nothing is compensated.
AddFails ==
    /\ step = "add"
    /\ \/ UNCHANGED treeVars
       \/ Free(name) /\ Added(name)
       \/ /\ Free(name)
          /\ branch' = [branch EXCEPT ![name] = "manager"]
          /\ UNCHANGED <<directory, attached, dirty>>
    /\ AnswerManager("not_added", owned)

\* The list of worktrees shows the new one: it is recorded.
Verify ==
    /\ step = "verify" /\ Managed(name)
    /\ owned' = owned \cup {name}
    /\ step' = "populate"
    /\ UNCHANGED <<treeVars, doing, name, force, answer>>

\* It cannot be listed; it was added but is not recorded.
VerifyFails ==
    /\ step = "verify"
    /\ AnswerManager("not_added", owned)
    /\ UNCHANGED treeVars

\* git reset --hard, and the start command, which may leave changes of its own.
Populate ==
    /\ step = "populate"
    /\ dirty' \in {dirty, dirty \ {name}}
    /\ AnswerManager("ok", owned)
    /\ UNCHANGED <<directory, branch, attached>>

\* The context is done, or a command fails: compensateCreate.
PopulateFails ==
    /\ step = "populate"
    /\ dirty' \in {dirty, dirty \ {name}}
    /\ Then("compensate")
    /\ UNCHANGED <<directory, branch, attached>>

\* compensate looks at the list again.
Compensate ==
    /\ step = "compensate"
    /\ \/ Managed(name) /\ Then("detach")
       \/ attached[name] = "none" /\ Then("erase")
       \/ Failed
    /\ UNCHANGED treeVars

------------------------------------------------------------------------------
(* Remove, and what it shares with the compensation.                        *)

\* What is attached under the branch of its name is adopted; what is not
\* attached must be on record.
RemoveWorktree(n, forced) ==
    /\ Begin("remove", n, IF Managed(n) /\ ~forced THEN "inspect"
                          ELSE IF Managed(n) THEN "detach" ELSE "erase")
    /\ attached[n] # "other" /\ (Managed(n) \/ n \in owned)
    /\ owned' = IF Managed(n) THEN owned \cup {n} ELSE owned
    /\ force' = forced
    /\ UNCHANGED treeVars

\* git status; what has changes is left alone.
Inspect ==
    /\ step = "inspect"
    /\ \/ name \notin dirty /\ Then("detach")
       \/ Failed
    /\ UNCHANGED treeVars

\* git worktree remove, with --force in the compensation; the list afterwards
\* decides, whatever git has reported.
Detach ==
    /\ step = "detach"
    /\ name \in dirty => force \/ doing = "create"
    /\ attached' = [attached EXCEPT ![name] = "none"]
    /\ directory' \in {directory, [directory EXCEPT ![name] = "none"]}
    /\ Then("erase")
    /\ UNCHANGED <<branch, dirty>>

\* git fails and the worktree is still attached, or it cannot be listed.
DetachFails ==
    /\ step = "detach"
    /\ \/ UNCHANGED treeVars
       \/ /\ attached' = [attached EXCEPT ![name] = "none"]
          /\ directory' = [directory EXCEPT ![name] = "none"]
          /\ UNCHANGED <<branch, dirty>>
    /\ Failed

\* removeDirectory
Erase ==
    /\ step = "erase"
    /\ directory' = [directory EXCEPT ![name] = "none"]
    /\ dirty' = dirty \ {name}
    /\ Then("branch")
    /\ UNCHANGED <<branch, attached>>

EraseFails ==
    /\ step = "erase"
    /\ Failed
    /\ UNCHANGED treeVars

RemoveDone(how) == AnswerManager(how, owned \ {name})
Undone == RemoveDone(IF doing = "create" THEN "undone" ELSE "ok")

\* Mutant of DeleteBranch: the branch is left.
LeaveBranch ==
    /\ step = "branch"
    /\ Undone
    /\ UNCHANGED treeVars

\* deleteBranch: it may be gone already.
DeleteBranch ==
    /\ step = "branch"
    /\ branch' = [branch EXCEPT ![name] = "none"]
    /\ Undone
    /\ UNCHANGED <<directory, attached, dirty>>

DeleteBranchFails ==
    /\ step = "branch"
    /\ branch' \in {branch, [branch EXCEPT ![name] = "none"]}
    /\ Failed
    /\ UNCHANGED <<directory, attached, dirty>>

------------------------------------------------------------------------------
(* List and Reset.                                                          *)

List ==
    /\ doing = "none"
    /\ owned' = owned \cup {n \in Names : Managed(n)}
    /\ UNCHANGED <<treeVars, doing, step, name, force, answer>>

Reset(n) ==
    /\ Managed(n)
    /\ Begin("reset", n, "reset")
    /\ owned' = owned \cup {n}
    /\ UNCHANGED <<treeVars, force>>

\* The commands of Reset, and the status that must be clean in the end.
ResetSteps ==
    /\ step = "reset"
    /\ \/ dirty' = dirty \ {name} /\ AnswerManager("ok", owned)
       \/ dirty' \in {dirty, dirty \ {name}} /\ Failed
    /\ UNCHANGED <<directory, branch, attached>>

------------------------------------------------------------------------------
(* Everybody else.                                                          *)

\* Others use the names that they find free, also between two commands of the
\* manager.
Others(n) ==
    /\ \/ /\ directory[n] = "none" /\ attached[n] = "none"
          /\ directory' = [directory EXCEPT ![n] = "other"]
          /\ attached' \in {attached, [attached EXCEPT ![n] = "other"]}
          /\ UNCHANGED <<branch, dirty>>
       \/ /\ branch[n] = "none"
          /\ branch' = [branch EXCEPT ![n] = "other"]
          /\ UNCHANGED <<directory, attached, dirty>>
       \/ /\ Managed(n)
          /\ dirty' = dirty \cup {n}
          /\ UNCHANGED <<directory, branch, attached>>
    /\ UNCHANGED <<owned, doing, step, name, force, answer>>

RestartManager ==
    /\ owned' = {} /\ doing' = "none" /\ step' = "idle" /\ answer' = "none"
    /\ UNCHANGED <<treeVars, name, force>>

------------------------------------------------------------------------------
Create ==
    \/ \E n \in Names : Candidate(n)
    \/ Add \/ AddFails \/ Verify \/ VerifyFails \/ Populate \/ PopulateFails \/ Compensate

RemoveSteps ==
    \/ \E n \in Names, forced \in BOOLEAN : RemoveWorktree(n, forced)
    \/ Inspect \/ Detach \/ DetachFails \/ Erase \/ EraseFails
    \/ DeleteBranch \/ DeleteBranchFails

WorktreeNext ==
    \/ Create \/ RemoveSteps \/ List \/ ResetSteps \/ RestartManager
    \/ \E n \in Names : Reset(n) \/ Others(n)

WorktreeSpec == WorktreeInit /\ [][WorktreeNext]_worktreeVars

------------------------------------------------------------------------------
(* Properties.                                                              *)

\* What the answers promise, whatever failed on the way: a Create that succeeds
\* has all three parts and its record, one that fails after the worktree was
\* verified has undone them all or keeps the record, by which Remove can finish
\* later; after a Remove that succeeds nothing of the worktree is there, if
\* others have not used its name again (Create, compensate, Remove).
AnswerIsWhole ==
    [][doing # "none" /\ doing' = "none" =>
        LET parts == {directory'[name], branch'[name], attached'[name]} IN
        /\ doing = "create" /\ answer' = "ok" =>
            parts = {"manager"} /\ name \in owned'
        /\ answer' = "undone" \/ (doing = "remove" /\ answer' = "ok") =>
            "manager" \notin parts /\ branch'[name] = "none" /\ name \notin owned'
        /\ doing = "create" /\ answer' = "failed" => name \in owned'
      ]_worktreeVars

\* A Create that loses the race for its name takes nothing away from the winner:
\* it deletes no branch of others, and the one directory of others that it may
\* erase is one put in the place of the worktree that it had itself made, listed
\* and just detached, whose branch is still there (Create does not compensate an
\* add that has failed; compensate looks at the list again).
CreateSparesOthers ==
    [][doing = "create" => \A n \in Names :
        /\ branch[n] = "other" => branch'[n] = "other"
        /\ directory[n] = "other" /\ directory'[n] # "other" =>
            n = name /\ step = "erase" /\ name \in owned /\ branch[name] = "manager"
      ]_worktreeVars

\* Remove "never recursively removes an unowned, primary, escaped, or
\* still-attached path" (the comment of Remove): what others have made stays.
RemoveSparesOthers ==
    [][doing = "remove" => (directory[name] = "other" => directory'[name] = "other")]_worktreeVars
==============================================================================
