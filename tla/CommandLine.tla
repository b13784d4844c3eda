---------------------------- MODULE CommandLine ----------------------------
(***************************************************************************)
(* ngcli (cli/src/admin.c, common.c, com_*.c): the automatic login, the    *)
(* loop over the command lines and the handler of SIGINT and SIGTERM, in   *)
(* the build with readline.                                                *)
(*                                                                         *)
(* A signal may come between any two steps.  The handler either jumps back *)
(* to the point sigsetjmp has marked in main or closes the session and     *)
(* exits, so that whatever main was at stays half done.  A step that uses  *)
(* memory that is not there any more leads to the step "wordFreed",        *)
(* "tableGone" or "sessionFreed", after which nothing is known.            *)
(*                                                                         *)
(* Of the library, each statement that changes the table of switches, the  *)
(* current switch or the session is a step; requests are seen through what *)
(* they return.  Words are seen through the memory they are in.  A line    *)
(* has fewer than MaxCom words: with MAXCOM of them the loop that frees    *)
(* them (admin.c:404) runs past the end of com.                            *)
(***************************************************************************)
EXTENDS Integers, Sequences

CONSTANTS
  Mac,         \* MAC addresses of switches
  None,        \* no option -m
  Wanted,      \* values of option -m, or None
  Retries,     \* values of option -r
  Batch,       \* values of option -a
  MaxTab,      \* switches a scan finds at most
  MaxCom,      \* length of com, MAXCOM in the code
  MaxSignals   \* signals that come

ASSUME CommandLineAssumption ==
  /\ None \notin Mac /\ Wanted \subseteq Mac \cup {None}
  /\ Retries \subseteq Int /\ Batch \subseteq {0, 1}
  /\ MaxTab \in Nat /\ MaxCom \in Nat \ {0} /\ MaxSignals \in Nat

VARIABLES
  batch, mac, retries,   \* the options
  at,          \* step of main the process is at
  stmt,        \* statement of the library it is at, "call" at the first one
  scans,       \* scans pre_login has begun, i in the code
  swi_tab,     \* what nga->swi_tab points to
  tab,         \* MAC addresses of the nga->swi_count switches
  current,     \* nga->current as a position in tab, 0 is NULL
  nga,         \* the session: "open", "closed" with its socket, "freed"
  main_loop_continue,  \* 0 or 1, like batch
  jmpbuf,      \* "unset", or "set" by sigsetjmp
  com,         \* what each element points to: nothing, a word, freed memory
  word,        \* position of the loop that frees the words, 1 outside of it
  echo,        \* echo of the terminal, "on" or "off"
  orig_echo,   \* the same when ngcli was started
  blocked,     \* signals blocked
  signals,     \* signals so far
  hits,        \* history: where signals came, see Here
  past         \* history: what has happened, see Event

options == <<batch, mac, retries, orig_echo>>
session == <<swi_tab, tab, current, nga, stmt>>
words == <<com, word>>
signalVars == <<jmpbuf, blocked, signals, hits>>
vars == <<options, at, scans, session, main_loop_continue, words, echo,
          signalVars, past>>
\* What a call of the library leaves alone.
cli == <<options, scans, main_loop_continue, words, echo, signalVars, past>>

\* The login of pre_login has succeeded; quit was run.
Event == {"login", "quit"}
Signal == {"SIGINT", "SIGTERM"}
Slot == 1 .. MaxCom
Login == {"scan", "search", "login"}
Command == {"do_scan", "do_login", "password", "confirm", "defaults", "print"}
Ending == {"close", "terminal", "exit"}
Misused == {"sessionFreed", "tableGone", "wordFreed"}
Over == {"exited"} \cup Misused
Step == Login \cup Command \cup Ending \cup Over
          \cup {"mark", "enter", "while", "read", "run", "free", "clear"}
\* Each is named for what the statement does next.
Statement == {"freeTab", "tabNull", "countZero", "delog", "wait", "fill",
              "freeNga"}

\* Where a signal hits: between the statements of the library, of the loop that
\* frees the words and of the end, or anywhere else.
Here == CASE stmt # "call" -> stmt
          [] stmt = "call" /\ at \in Ending \cup {"free", "clear"} -> at
          [] OTHER -> "main"
Point == Statement \cup Ending \cup {"free", "clear", "main"}

TypeOK ==
  /\ batch \in Batch /\ mac \in Wanted /\ retries \in Retries
  /\ at \in Step /\ stmt \in Statement \cup {"call"} /\ scans \in Nat
  /\ swi_tab \in {"NULL", "table", "freed"}
  /\ tab \in Seq(Mac) /\ current \in Nat
  /\ nga \in {"open", "closed", "freed"}
  /\ main_loop_continue \in {0, 1} /\ jmpbuf \in {"unset", "set"}
  /\ com \in [Slot -> {"NULL", "word", "freed"}] /\ word \in Slot
  /\ echo \in {"off", "on"} /\ orig_echo \in {"off", "on"}
  /\ blocked \subseteq Signal /\ signals \in 0 .. MaxSignals
  /\ hits \subseteq Point /\ past \subseteq Event

\* After the options, with the handler installed.
Init ==
  /\ batch \in Batch /\ mac \in Wanted /\ retries \in Retries
  /\ orig_echo \in {"off", "on"} /\ echo = orig_echo
  /\ at = IF mac = None THEN "mark" ELSE "scan"
  /\ scans = IF mac = None THEN 0 ELSE 1
  /\ stmt = "call" /\ nga = "open"
  /\ swi_tab = "NULL" /\ tab = <<>> /\ current = 0
  /\ main_loop_continue = 0 /\ jmpbuf = "unset"
  /\ com = [k \in Slot |-> "NULL"] /\ word = 1
  /\ blocked = {} /\ signals = 0 /\ hits = {} /\ past = {}

-----------------------------------------------------------------------------
(* The library *)

Tables == UNION {[1 .. k -> Mac] : k \in 0 .. MaxTab}

\* The steps main goes on with.
Success == CASE at = "scan" -> "search" [] at = "login" -> "mark"
             [] OTHER -> "free"
Failure == IF at \in Login THEN "close" ELSE "free"

\* A call returns, and main goes to step s.
Return(s) == at' = s /\ stmt' = "call"

\* What comes next is free(nga->swi_tab): in ngadmin_scan, which begins with
\* it, in ngadmin_defaults and in ngadmin_close.
FreesTab ==
  \/ at \in {"scan", "do_scan"} /\ stmt = "call"
  \/ at \in {"defaults", "close"} /\ stmt = "freeTab"

FreeTab ==
  /\ FreesTab /\ nga # "freed" /\ swi_tab # "freed"
  /\ swi_tab' = IF swi_tab = "table" THEN "freed" ELSE swi_tab
  /\ stmt' = IF at = "close" THEN "freeNga" ELSE "tabNull"
  /\ UNCHANGED <<cli, at, tab, current, nga>>

\* Mutant: the pointer to the table is kept.
TabNullKept ==
  /\ stmt = "tabNull" /\ stmt' = "countZero"
  /\ UNCHANGED <<cli, at, swi_tab, tab, current, nga>>

TabNull ==
  /\ stmt = "tabNull" /\ stmt' = "countZero" /\ swi_tab' = "NULL"
  /\ UNCHANGED <<cli, at, tab, current, nga>>

CountZero ==
  /\ stmt = "countZero" /\ stmt' = "delog" /\ tab' = <<>>
  /\ UNCHANGED <<cli, at, swi_tab, current, nga>>

Delog ==
  /\ stmt = "delog" /\ current' = 0
  /\ IF at = "defaults" THEN Return("free")
                         ELSE stmt' = "wait" /\ UNCHANGED at
  /\ UNCHANGED <<cli, swi_tab, tab, nga>>

\* ngadmin_scan waits for replies; the number of them is stored before the
\* pointer to their table.  On a closed socket, nothing can be sent.
ScanReplies ==
  /\ at \in {"scan", "do_scan"} /\ stmt = "wait"
  /\ \/ nga = "open" /\ tab' \in Tables /\ stmt' = "fill" /\ UNCHANGED at
     \/ Return(Failure) /\ UNCHANGED tab
  /\ UNCHANGED <<cli, swi_tab, current, nga>>

ScanFill ==
  /\ stmt = "fill" /\ swi_tab' = "table" /\ Return(Success)
  /\ UNCHANGED <<cli, tab, current, nga>>

\* ngadmin_login(nga, id), for an index of C: a bad one changes nothing.
BeginLogin(id) ==
  /\ stmt = "call" /\ nga # "freed"
  /\ \/ /\ id \in 0 .. Len(tab) - 1 /\ swi_tab = "table"
        /\ current' = id + 1 /\ stmt' = "wait" /\ UNCHANGED at
     \/ id \notin 0 .. Len(tab) - 1 /\ Return(Failure) /\ UNCHANGED current
  /\ UNCHANGED <<cli, swi_tab, tab, nga>>

\* The switch lets the client in, or the login fails, which leaves the current
\* switch in one case.
EndLogin ==
  /\ at \in {"login", "do_login"} /\ stmt = "wait"
  /\ \/ nga = "open" /\ Return(Success) /\ UNCHANGED current
     \/ Return(Failure) /\ current' \in {0, current}
  /\ past' = IF at' = "mark" THEN past \cup {"login"} ELSE past
  /\ UNCHANGED <<options, scans, main_loop_continue, words, echo, signalVars,
                 swi_tab, tab, nga>>

\* The switch of ngadmin_defaults has agreed, or it has not.
Defaults ==
  /\ at = "defaults" /\ stmt = "call" /\ nga # "freed" /\ swi_tab = "table"
  /\ \/ nga = "open" /\ stmt' = "freeTab" /\ UNCHANGED at
     \/ Return("free")
  /\ UNCHANGED <<cli, swi_tab, tab, current, nga>>

\* Freed memory, or a null pointer, is used.
Misuse(s) ==
  at' = s /\ stmt' = "call" /\ UNCHANGED <<cli, swi_tab, tab, current, nga>>

\* The table is freed again, or read, through swi_tab or through current.
UseTab ==
  /\ nga # "freed" /\ Misuse("tableGone")
  /\ \/ FreesTab /\ swi_tab = "freed"
     \/ /\ swi_tab # "table" /\ stmt = "call"
        /\ \/ at \in {"do_login", "print"} /\ tab # <<>>
           \/ at \in Command \ {"do_scan", "do_login"} /\ current # 0

UseFreed ==
  /\ at \in Login \cup Command \cup {"close"} /\ nga = "freed"
  /\ Misuse("sessionFreed")

-----------------------------------------------------------------------------
(* pre_login *)

\* Indices of C of the entries with the MAC address asked for.
Found == {n \in 0 .. Len(tab) - 1 : tab[n + 1] = mac}

\* Mutant: n has been counted down once more.
LastFoundNext(n) == n + 1 \in Found /\ \A k \in Found : k <= n + 1

\* The search runs from the last entry to the first.
LastFound(n) == n \in Found /\ \A k \in Found : k <= n

\* Mutant: the scans are not counted.
ScanAgainUncounted ==
  /\ at = "search" /\ Found = {} /\ (retries <= 0 \/ scans + 1 <= retries)
  /\ at' = "scan" /\ scans' = scans
  /\ UNCHANGED <<options, session, main_loop_continue, words, echo,
                 signalVars, past>>

\* The switch is not there: another scan.  Without a limit the number of
\* scans means nothing and is not counted.
ScanAgain ==
  /\ at = "search" /\ Found = {} /\ (retries <= 0 \/ scans + 1 <= retries)
  /\ at' = "scan" /\ scans' = IF retries <= 0 THEN scans ELSE scans + 1
  /\ UNCHANGED <<options, session, main_loop_continue, words, echo,
                 signalVars, past>>

GiveUp ==
  /\ at = "search" /\ Found = {} /\ retries > 0 /\ scans + 1 > retries
  /\ at' = "close"
  /\ UNCHANGED <<options, scans, session, main_loop_continue, words, echo,
                 signalVars, past>>

SwitchFound ==
  /\ at = "search" /\ Found # {} /\ at' = "login"
  /\ UNCHANGED <<options, scans, session, main_loop_continue, words, echo,
                 signalVars, past>>

PreLogin == at = "login" /\ \E n \in -1 .. MaxTab : LastFound(n) /\ BeginLogin(n)

-----------------------------------------------------------------------------
(* The main loop *)

Mark ==
  /\ at = "mark" /\ at' = "enter"
  /\ jmpbuf' = IF batch = 0 THEN "set" ELSE jmpbuf
  /\ UNCHANGED <<options, scans, session, main_loop_continue, words, echo,
                 blocked, signals, hits, past>>

Enter ==
  /\ at = "enter" /\ at' = "while" /\ main_loop_continue' = 1
  /\ UNCHANGED <<options, scans, session, words, echo, signalVars, past>>

While ==
  /\ at = "while" /\ at' = IF main_loop_continue = 1 THEN "read" ELSE "close"
  /\ UNCHANGED <<options, scans, session, main_loop_continue, words, echo,
                 signalVars, past>>

\* explode writes over the first n elements, and over no others.
explode(n) == [k \in Slot |-> IF k <= n THEN "word" ELSE com[k]]

\* An empty line, or one that is split into words.
ReadLine ==
  /\ at = "read"
  /\ \/ at' = "while" /\ UNCHANGED com
     \/ at' = "run" /\ \E n \in 1 .. MaxCom - 1 : com' = explode(n)
  /\ UNCHANGED <<options, scans, session, main_loop_continue, word, echo,
                 signalVars, past>>

EndOfInput ==
  /\ at = "read" /\ at' = "close"
  /\ UNCHANGED <<options, scans, session, main_loop_continue, words, echo,
                 signalVars, past>>

\* The command is in the tree and takes its arguments.  password turns the
\* echo off before it reads; restart and defaults want a current switch.
Run ==
  /\ at = "run" /\ at' \in Command \ {"defaults"}
  /\ at' = "confirm" => current # 0
  /\ echo' = IF at' = "password" THEN "off" ELSE echo
  /\ UNCHANGED <<options, scans, session, main_loop_continue, words,
                 signalVars, past>>

\* It is not, or it does not: something is printed.
Unknown ==
  /\ at = "run" /\ at' = "free"
  /\ UNCHANGED <<options, scans, session, main_loop_continue, words, echo,
                 signalVars, past>>

\* Mutant: the loop goes on.
QuitGoesOn ==
  /\ at = "run" /\ at' = "free"
  /\ past' = past \cup {"quit"}
  /\ UNCHANGED <<options, scans, session, main_loop_continue, words, echo,
                 signalVars>>

Quit ==
  /\ at = "run" /\ at' = "free"
  /\ main_loop_continue' = 0 /\ past' = past \cup {"quit"}
  /\ UNCHANGED <<options, scans, session, words, echo, signalVars>>

DoLogin == at = "do_login" /\ \E id \in -1 .. MaxTab : BeginLogin(id)

\* The password, or the end of the input, has been read.
Password ==
  /\ at = "password" /\ nga # "freed"
  /\ at' = "free" /\ echo' = "on"
  /\ UNCHANGED <<options, scans, session, main_loop_continue, words,
                 signalVars, past>>

\* restart and defaults ask back; the answer is no, or it is restart.
Confirm ==
  /\ at = "confirm" /\ nga # "freed"
  /\ at' \in {"free", "defaults"}
  /\ UNCHANGED <<options, scans, session, main_loop_continue, words, echo,
                 signalVars, past>>

\* Any other command: the table and the current switch stay.
OtherCommand ==
  /\ at = "print" /\ nga # "freed" /\ at' = "free"
  /\ UNCHANGED <<options, scans, session, main_loop_continue, words, echo,
                 signalVars, past>>

\* free(com[i])
FreeWord ==
  /\ at = "free" /\ com[word] # "NULL"
  /\ at' = IF com[word] = "freed" THEN "wordFreed" ELSE "clear"
  /\ com' = [com EXCEPT ![word] = "freed"]
  /\ UNCHANGED <<options, scans, session, main_loop_continue, word, echo,
                 signalVars, past>>

\* com[i] = NULL.  The last element is never used.
ClearWord ==
  /\ at = "clear" /\ at' = "free"
  /\ com' = [com EXCEPT ![word] = "NULL"] /\ word' = word + 1
  /\ UNCHANGED <<options, scans, session, main_loop_continue, echo,
                 signalVars, past>>

FreeDone ==
  /\ at = "free" /\ com[word] = "NULL" /\ at' = "while" /\ word' = 1
  /\ UNCHANGED <<options, scans, session, main_loop_continue, com, echo,
                 signalVars, past>>

-----------------------------------------------------------------------------
(* The end: handler, called by main or by a signal, up to exit *)

\* ngadmin_close: stopNetwork, free(nga->swi_tab), free(nga).
StopNetwork ==
  /\ at = "close" /\ stmt = "call" /\ nga # "freed"
  /\ nga' = "closed" /\ stmt' = "freeTab"
  /\ UNCHANGED <<cli, at, swi_tab, tab, current>>

FreeNga ==
  /\ stmt = "freeNga" /\ nga' = "freed" /\ Return("terminal")
  /\ UNCHANGED <<cli, swi_tab, tab, current>>

Terminal ==
  /\ at = "terminal" /\ at' = "exit" /\ echo' = orig_echo
  /\ UNCHANGED <<options, scans, session, main_loop_continue, words,
                 signalVars, past>>

Exit ==
  /\ at = "exit" /\ at' = "exited"
  /\ UNCHANGED <<options, scans, session, main_loop_continue, words, echo,
                 signalVars, past>>

\* Mutant: the handler jumps whatever main is at.
JumpsAlways == batch = 0

\* The handler jumps back to main.
Jumps == batch = 0 /\ main_loop_continue = 1

\* Mutant: the handler leaves the terminal as it is.
HandlerEchoKept == echo

HandlerEcho == "on"

\* The jump restores the signal mask sigsetjmp has saved: nothing was blocked.
Interrupt(s) ==
  /\ at \notin Over /\ s \notin blocked /\ signals < MaxSignals
  /\ signals' = signals + 1 /\ hits' = hits \cup {Here}
  /\ echo' = HandlerEcho /\ stmt' = "call" /\ word' = 1
  /\ IF Jumps THEN at' = "enter" /\ blocked' = {}
              ELSE at' = "close" /\ blocked' = blocked \cup {s}
  /\ UNCHANGED <<options, scans, swi_tab, tab, current, nga,
                 main_loop_continue, com, jmpbuf, past>>

-----------------------------------------------------------------------------
Library == FreeTab \/ TabNull \/ CountZero \/ Delog \/ ScanReplies \/ ScanFill
             \/ EndLogin \/ Defaults \/ UseTab \/ UseFreed
Startup == ScanAgain \/ GiveUp \/ SwitchFound \/ PreLogin \/ Mark
Loop == Enter \/ While \/ Run \/ Unknown \/ Quit \/ DoLogin \/ OtherCommand
          \/ FreeWord \/ ClearWord \/ FreeDone
End == StopNetwork \/ FreeNga \/ Terminal \/ Exit
User == ReadLine \/ EndOfInput \/ Password \/ Confirm

Next == Library \/ Startup \/ Loop \/ End \/ User
          \/ \E s \in Signal : Interrupt(s)

\* The process goes on, and the calls of the library return; the user need
\* not type anything.
Fairness == WF_vars(Library) /\ WF_vars(Startup) /\ WF_vars(Loop) /\ WF_vars(End)
Spec == Init /\ [][Next]_vars /\ Fairness

-----------------------------------------------------------------------------
\* With -m, no command line is read unless the login has succeeded, and the
\* switch that is current then has the MAC address asked for
\* (admin.c:148-192, 335).
RequestedSwitch ==
  mac # None =>
    /\ at \notin Login \cup Ending \cup Over => "login" \in past
    /\ at = "mark" =>
         swi_tab = "table" /\ current \in DOMAIN tab /\ tab[current] = mac

\* -r is the number of scans, not that of those after the first
\* (admin.c:154).
RetriesKept == retries > 0 => scans <= retries

\* The handler never jumps before sigsetjmp has marked where to
\* (admin.c:134, 344, 348).
JumpIsMarked == at \notin Over /\ Jumps => jmpbuf = "set"

\* A signal that comes after quit does not bring the prompt back: the handler
\* ends the program (com_quit.c:12, admin.c:134).
QuitIsFinal == "quit" \in past => at \notin {"read", "run"} \cup Command

\* A signal does not keep the next one from being handled: none is blocked
\* when a line is read (admin.c:135, 344).
SignalsHandled == at = "read" => blocked = {}

\* However a command is cut off, the terminal echoes again when the next line
\* is read, and is left as it was found (admin.c:131-132, 141,
\* com_password.c:25-30).
EchoRestored ==
  /\ at = "read" /\ orig_echo = "on" => echo = "on"
  /\ at = "exited" => echo = orig_echo

\* The words of a line that was cut off stay in com and are freed later, with
\* those of another line: twice only after a signal between free and the
\* assignment of NULL, and at a terminal (admin.c:404-407).
WordsFreedOnce == at = "wordFreed" => batch = 0 /\ "clear" \in hits

\* The statements before which swi_tab, swi_count and current do not agree:
\* those that follow free(swi_tab) in ngadmin_scan, ngadmin_defaults and
\* ngadmin_close, and the last one of ngadmin_scan (session.c:58-61, 99-100,
\* misc.c:131-134, libconf.c:44-45).
TabWindow == {"tabNull", "countZero", "delog", "fill", "freeNga"}

\* In batch mode the handler frees the table and looks at nothing else.
TabUsed ==
  at = "tableGone" => IF batch = 0 THEN hits \cap TabWindow # {}
                                   ELSE hits \cap {"tabNull", "freeNga"} # {}

\* The session is used after ngadmin_close only if a signal came when it had
\* returned and exit had not (admin.c:139-143).
SessionUsed == at = "sessionFreed" => hits \cap {"terminal", "exit"} # {}

\* A signal at any step, and a second one at any later step, brings the
\* process to use memory that is not there only if one of them came in one of
\* the windows named; wherever else it cuts a command, a scan, a login or the
\* closing of the session, what follows finds the words, the table, the
\* current switch and the session in order.
NotUsedAfterFree == WordsFreedOnce /\ TabUsed /\ SessionUsed

\* With a limit the automatic login ends, whatever switches answer.
PreLoginEnds == retries > 0 => <>(at \notin Login)

\* quit ends the program, and so does a signal in batch mode.
Ends == "quit" \in past \/ (batch = 1 /\ signals > 0) ~> at \in Over
=============================================================================
