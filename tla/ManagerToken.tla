---------------------------- MODULE ManagerToken ---------------------------
(* The token of the manager page (manager_api.py, cli/manager.py): one file, *)
(* read at every request, issued when it is missing and replaced when it is  *)
(* too old - by the manager when it starts and every 30 minutes, and by the  *)
(* commands that print it.  Nothing locks the file.                          *)
EXTENDS ManagerService, ManagerPage

CONSTANTS Printer,    \* the commands that print the token
          MaxIssue,   \* bound: tokens
          MaxPrint,   \* bound: commands
          MaxLapse    \* bound: tokens that grow old, files that are lost

ASSUME TokenAssumption ==
    "manager" \notin Printer /\ MaxIssue \in Nat /\ MaxPrint \in Nat /\ MaxLapse \in Nat

VARIABLES
    file,      \* run/manager-token.json: it reads, its token, it has createdAt, it is old
    keeper,    \* the manager and the commands in the middle of a check
    printed,   \* the token printed last; 0: none, or it is due or its file was lost
    told,      \* ghost: tokens that were replaced; two checks overlapped
    counts     \* tokens issued, commands, lapses

tokenVars == <<file, keeper, printed, told, counts>>

Keeper == Printer \cup {"manager"}
NoFile == [reads |-> FALSE, token |-> 0, dated |-> FALSE, old |-> FALSE]

AndThen(k) == IF k = "manager" THEN "idle" ELSE "prints"
In(k, pc) == keeper[k].pc = pc
Moves(k, pc, token) == keeper' = [keeper EXCEPT ![k].pc = pc, ![k].token = token]
Minted == counts.issue + 1
Spends(c, max) == counts[c] < max /\ counts' = [counts EXCEPT ![c] = @ + 1]

(* _verify_token *)
Accepts(token) == file.reads /\ file.token = token

(* read_token *)
Current == IF file.reads THEN file.token ELSE 0
(* Mutant: the command prints the token it found (BUG-446).                  *)
Shown_Found(k) == keeper[k].found
(* What a command prints: it reads the file again.                           *)
Shown(k) == Current

----------------------------------------------------------------------------
(* maybe_rotate_token: by the metadata of the file, one after the other.  A  *)
(* file of an older version gets its date and keeps its token.               *)
Looks(k) ==
    \/ /\ ~file.reads /\ Moves(k, "issues", 0) /\ UNCHANGED counts
    \/ /\ file.reads /\ ~file.dated /\ Moves(k, "writes", file.token) /\ UNCHANGED counts
    \/ /\ file.dated /\ file.old /\ Spends("issue", MaxIssue) /\ Moves(k, "writes", Minted)
    \/ /\ file.dated /\ ~file.old /\ Moves(k, AndThen(k), 0) /\ UNCHANGED counts

(* A command begins; the manager starts or its timer fires.                  *)
BeginsToPrint(k) ==
    /\ In(k, "idle") /\ Spends("print", MaxPrint)
    /\ keeper' = [keeper EXCEPT ![k] = [pc |-> "looks", token |-> 0, found |-> Current]]
    /\ UNCHANGED <<file, printed, told>>
CommandLooks(k) == In(k, "looks") /\ Looks(k) /\ UNCHANGED <<file, printed, told>>
ManagerLooks == In("manager", "idle") /\ Looks("manager") /\ UNCHANGED <<file, printed, told>>

(* ensure_token: by rotation, and when the manager starts.                   *)
ManagerStarts == /\ In("manager", "idle") /\ Moves("manager", "issues", 0)
                 /\ UNCHANGED <<file, printed, told, counts>>
IssuesToken(k) ==
    /\ In(k, "issues")
    /\ \/ file.reads /\ Moves(k, AndThen(k), 0) /\ UNCHANGED counts
       \/ ~file.reads /\ Spends("issue", MaxIssue) /\ Moves(k, "writes", Minted)
    /\ UNCHANGED <<file, printed, told>>

(* _write_token: the file is replaced as a whole, or the command ends and    *)
(* the manager goes on.                                                      *)
WritesToken(k) ==
    /\ In(k, "writes") /\ UNCHANGED printed
    /\ \/ /\ file' = [reads |-> TRUE, token |-> keeper[k].token, dated |-> TRUE, old |-> FALSE]
          /\ told' = [replaced |-> told.replaced \cup ({file.token} \ {0, keeper[k].token}),
                      crossed |-> told.crossed \/ \E j \in Keeper \ {k} : In(j, "writes")]
          /\ Moves(k, AndThen(k), 0) /\ UNCHANGED counts
       \/ Spends("lapse", MaxLapse) /\ Moves(k, "idle", 0) /\ UNCHANGED <<file, told>>

(* manager_on, manager_run *)
PrintsToken(k) ==
    /\ In(k, "prints")
    /\ printed' = (IF file.old THEN 0 ELSE Shown(k)) /\ Moves(k, "idle", 0)
    /\ UNCHANGED <<file, told, counts>>

----------------------------------------------------------------------------
(* should_rotate_token: managerTokenRotateHours have gone by.                *)
GrowsOld ==
    /\ file.dated /\ ~file.old /\ Spends("lapse", MaxLapse)
    /\ file' = [file EXCEPT !.old = TRUE]
    /\ printed' = IF printed = file.token THEN 0 ELSE printed
    /\ UNCHANGED <<keeper, told>>
(* The file is deleted, or cannot be read any more.                          *)
IsLost ==
    /\ file.reads /\ Spends("lapse", MaxLapse)
    /\ file' = NoFile /\ printed' = 0
    /\ UNCHANGED <<keeper, told>>

TokenInit ==
    /\ \/ file = NoFile /\ counts = [issue |-> 0, print |-> 0, lapse |-> 0]
       \/ /\ file \in [reads : {TRUE}, token : {1}, dated : BOOLEAN, old : {FALSE}]
          /\ counts = [issue |-> 1, print |-> 0, lapse |-> 0]
    /\ keeper = [k \in Keeper |-> [pc |-> "idle", token |-> 0, found |-> 0]]
    /\ printed = 0
    /\ told = [replaced |-> {}, crossed |-> FALSE]

TokenNext ==
    \/ \E k \in Printer : BeginsToPrint(k) \/ CommandLooks(k) \/ PrintsToken(k)
    \/ \E k \in Keeper : IssuesToken(k) \/ WritesToken(k)
    \/ ManagerLooks \/ ManagerStarts \/ GrowsOld \/ IsLost

TokenSpec == TokenInit /\ [][TokenNext]_tokenVars

----------------------------------------------------------------------------
TokenTypeOK == /\ file.token <= counts.issue /\ printed <= counts.issue
               /\ \A k \in Keeper : keeper[k].pc \in {"idle", "looks", "issues", "writes", "prints"}

(* A token that was printed is accepted until it is due or the file is lost, *)
(* although the manager starts and checks meanwhile (cli/manager.py 54-61,   *)
(* 257-259, BUG-446) - unless two checks were about to write at a time.      *)
PrintedHolds == printed # 0 /\ ~told.crossed => Accepts(printed)

(* A token that was replaced is not accepted again (manager_api.py:146).     *)
ReplacedIsGone == ~told.crossed => \A token \in told.replaced : ~Accepts(token)

(* The token in one statement.                                               *)
TokenIsSafe == TokenTypeOK /\ PrintedHolds /\ ReplacedIsGone

(* Without the exception: two checks that overlap both replace a token that  *)
(* is due, and the first command has printed one that is refused.            *)
PrintedAlwaysHolds == printed # 0 => Accepts(printed)

(* The manager in one statement: its service obeys, its page tells what was *)
(* found, its token holds (manager_service.py, manager_api.py).              *)
ManagerHolds == ManagerObeys /\ PageIsHonest /\ TokenIsSafe
=============================================================================
