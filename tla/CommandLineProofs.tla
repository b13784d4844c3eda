------------------------- MODULE CommandLineProofs -------------------------
(***************************************************************************)
(* Proofs of the safety properties of CommandLine, for any number of       *)
(* switches, words, scans and signals.                                     *)
(*                                                                         *)
(* The properties speak of a few points of the program and a signal may    *)
(* come at each, so none is inductive.  The invariants below say, part by  *)
(* part, what holds at every step: WordInv of the words, MainInv of what   *)
(* the handler looks at, StmtInv and TabInv of the statements of the       *)
(* library and the table of switches, EchoInv of the terminal.             *)
(***************************************************************************)
EXTENDS CommandLine, SequenceTheorems, TLAPS

USE CommandLineAssumption

\* Steps of the loop, after sigsetjmp.
Running == {"enter", "while", "read", "run", "free", "clear"} \cup Command

WordInv ==
  /\ com[MaxCom] = "NULL"
  /\ \A k \in Slot : com[k] = "freed" =>
       (at = "clear" /\ word = k) \/ "clear" \in hits
  /\ at = "clear" => com[word] = "freed"
  /\ at \notin {"free", "clear"} \cup Over => word = 1
  /\ WordsFreedOnce

MainInv ==
  /\ at \in Running \/ main_loop_continue = 1 => batch = 1 \/ jmpbuf = "set"
  /\ at \in Login \cup {"mark"} => main_loop_continue = 0 /\ "quit" \notin past
  /\ "quit" \in past => /\ main_loop_continue = 0
                        /\ at \in {"free", "clear", "while"} \cup Ending \cup Over
  /\ blocked # {} => at \in Ending \cup Over
  /\ mac # None /\ (at \in Running \cup {"mark"} \/ main_loop_continue = 1)
       => "login" \in past
  /\ batch = 1 /\ hits # {} => at \in Ending \cup Over
  /\ nga = "freed" => \/ at \in {"terminal", "exit", "exited"}
                      \/ hits \cap {"terminal", "exit"} # {}
  /\ at = "sessionFreed" => nga = "freed"

\* Which function of the library each statement is of.
StmtInv ==
  /\ stmt \in {"tabNull", "countZero", "delog"} => at \in {"scan", "do_scan", "defaults"}
  /\ stmt = "freeTab" => at \in {"defaults", "close"}
  /\ stmt = "wait" => at \in {"scan", "do_scan", "login", "do_login"}
  /\ stmt = "fill" => at \in {"scan", "do_scan"}
  /\ stmt = "freeNga" => at = "close"
  /\ at \in {"terminal", "exit", "exited"} => nga = "freed"

\* The table is freed and pointed to, or its count or the current switch
\* remain without it, only in the windows and after a signal in one.
TabInv ==
  /\ swi_tab = "freed" => \/ stmt \in {"tabNull", "freeNga"} \/ nga = "freed"
                         \/ hits \cap {"tabNull", "freeNga"} # {}
  /\ swi_tab # "table" /\ (tab # << >> \/ current # 0) =>
       \/ stmt \in TabWindow \/ nga = "freed" \/ hits \cap TabWindow # {}
  /\ stmt = "delog" => tab = << >>
  /\ at \in {"scan", "do_scan"} /\ stmt = "wait" =>
       tab = << >> /\ current = 0
  /\ TabUsed

EchoInv ==
  /\ orig_echo = "on" /\ echo = "off" => at = "password" \/ at \in Misused
  /\ at \in {"exit", "exited"} => echo = orig_echo

LimitInv ==
  /\ RetriesKept
  /\ at \in {"search", "login"} => swi_tab = "table"
  /\ (at = "login" /\ stmt = "wait") \/ (at = "mark" /\ mac # None) =>
       swi_tab = "table" /\ current \in DOMAIN tab /\ tab[current] = mac

-----------------------------------------------------------------------------
LEMMA MaxComSlot == MaxCom \in Slot
  BY DEF Slot

LEMMA FirstSlot == 1 \in Slot
  BY DEF Slot

LEMMA TablesAreSequences == \A t \in Tables : t \in Seq(Mac)
  BY SeqDef DEF Tables

LEMMA TypeInit == Init => TypeOK /\ WordInv /\ MainInv
<1> SUFFICES ASSUME Init PROVE TypeOK /\ WordInv /\ MainInv
  OBVIOUS
<1> USE DEF Init, Step, Login, Ending, Over, Misused, Command, Statement, Signal,
          Event, Slot, Point
<1>1. TypeOK
  <2>1. tab \in Seq(Mac)
    OBVIOUS
  <2> QED
    BY <2>1 DEF TypeOK
<1>2. WordInv
  BY MaxComSlot DEF WordInv, WordsFreedOnce
<1>3. MainInv
  BY DEF MainInv, Running
<1> QED
  BY <1>1, <1>2, <1>3

LEMMA OthersInit == Init => StmtInv /\ TabInv /\ EchoInv /\ LimitInv
<1> SUFFICES ASSUME Init PROVE StmtInv /\ TabInv /\ EchoInv /\ LimitInv
  OBVIOUS
<1>1. StmtInv /\ EchoInv
  BY DEF Init, StmtInv, EchoInv
<1>2. TabInv
  BY DEF Init, TabInv, TabUsed
<1>3. LimitInv
  BY DEF Init, LimitInv, RetriesKept
<1> QED
  BY <1>1, <1>2, <1>3

\* WordInv keeps the loop that frees the words within com.
LEMMA TypeKept == TypeOK /\ WordInv /\ [Next]_vars => TypeOK'
<1> SUFFICES ASSUME TypeOK, WordInv, [Next]_vars PROVE TypeOK'
  OBVIOUS
<1> USE FirstSlot, MaxComSlot DEF TypeOK, WordInv, Step, Login, Ending, Over, Misused,
          Command, Statement, Signal, Event, options, session, words, cli, signalVars
<1>1. CASE FreeTab
  BY <1>1 DEF FreeTab, FreesTab
<1>2. CASE TabNull
  BY <1>2 DEF TabNull
<1>3. CASE CountZero
  BY <1>3 DEF CountZero
<1>4. CASE Delog
  BY <1>4 DEF Delog, Return
<1>5. CASE ScanReplies
  BY <1>5, TablesAreSequences DEF ScanReplies, Return, Failure
<1>6. CASE ScanFill
  BY <1>6 DEF ScanFill, Return, Success
<1>7. CASE EndLogin
  BY <1>7 DEF EndLogin, Return, Success, Failure
<1>8. CASE Defaults
  BY <1>8 DEF Defaults, Return
<1>9. CASE UseTab
  BY <1>9 DEF UseTab, FreesTab, Misuse
<1>10. CASE UseFreed
  BY <1>10 DEF UseFreed, Misuse
<1>11. CASE ScanAgain
  BY <1>11 DEF ScanAgain
<1>12. CASE GiveUp
  BY <1>12 DEF GiveUp
<1>13. CASE SwitchFound
  BY <1>13 DEF SwitchFound
<1>14. CASE PreLogin
  BY <1>14 DEF PreLogin, BeginLogin, Return, Failure
<1>15. CASE Mark
  BY <1>15 DEF Mark
<1>16. CASE Enter
  BY <1>16 DEF Enter
<1>17. CASE While
  BY <1>17 DEF While
<1>18. CASE Run
  BY <1>18 DEF Run
<1>19. CASE Unknown
  BY <1>19 DEF Unknown
<1>20. CASE Quit
  BY <1>20 DEF Quit
<1>21. CASE DoLogin
  BY <1>21 DEF DoLogin, BeginLogin, Return, Failure
<1>22. CASE OtherCommand
  BY <1>22 DEF OtherCommand
<1>23. CASE FreeWord
  BY <1>23 DEF FreeWord
<1>24. CASE ClearWord
  BY <1>24 DEF ClearWord, Slot
<1>25. CASE FreeDone
  BY <1>25 DEF FreeDone
<1>26. CASE StopNetwork
  BY <1>26 DEF StopNetwork
<1>27. CASE FreeNga
  BY <1>27 DEF FreeNga, Return
<1>28. CASE Terminal
  BY <1>28 DEF Terminal
<1>29. CASE Exit
  BY <1>29 DEF Exit
<1>30. CASE ReadLine
  BY <1>30 DEF ReadLine, explode
<1>31. CASE EndOfInput
  BY <1>31 DEF EndOfInput
<1>32. CASE Password
  BY <1>32 DEF Password
<1>33. CASE Confirm
  BY <1>33 DEF Confirm
<1>34. ASSUME NEW s \in Signal, Interrupt(s) PROVE TypeOK'
  <2>1. at' \in Step /\ blocked' \subseteq Signal /\ hits' \subseteq Point
    BY <1>34 DEF Interrupt, Here, Point
  <2>2. signals' \in 0 .. MaxSignals
    BY <1>34 DEF Interrupt
  <2> QED
    BY <1>34, <2>1, <2>2 DEF Interrupt, HandlerEcho
<1>35. CASE UNCHANGED vars
  BY <1>35 DEF vars
<1> QED
  BY <1>1, <1>2, <1>3, <1>4, <1>5, <1>6, <1>7, <1>8, <1>9, <1>10, <1>11,
     <1>12, <1>13, <1>14, <1>15, <1>16, <1>17, <1>18, <1>19, <1>20, <1>21,
     <1>22, <1>23, <1>24, <1>25, <1>26, <1>27, <1>28, <1>29, <1>30, <1>31,
     <1>32, <1>33, <1>34, <1>35
  DEF Next, Library, Startup, Loop, End, User

\* A word is freed and not yet cleared only within the two statements.
LEMMA WordKept == TypeOK /\ WordInv /\ MainInv /\ StmtInv /\ [Next]_vars => WordInv'
<1> SUFFICES ASSUME TypeOK, WordInv, MainInv, StmtInv, [Next]_vars PROVE WordInv'
  OBVIOUS
<1> USE FirstSlot, MaxComSlot DEF TypeOK, WordInv, WordsFreedOnce, MainInv, StmtInv, Step, Login, Ending, Over, Misused,
          Command, Statement, Signal, Event, options, session, words, cli, signalVars
<1>1. CASE FreeTab
  BY <1>1 DEF FreeTab, FreesTab
<1>2. CASE TabNull
  BY <1>2 DEF TabNull
<1>3. CASE CountZero
  BY <1>3 DEF CountZero
<1>4. CASE Delog
  BY <1>4 DEF Delog, Return
<1>5. CASE ScanReplies
  BY <1>5 DEF ScanReplies, Return, Failure
<1>6. CASE ScanFill
  BY <1>6 DEF ScanFill, Return, Success
<1>7. CASE EndLogin
  BY <1>7 DEF EndLogin, Return, Success, Failure
<1>8. CASE Defaults
  BY <1>8 DEF Defaults, Return
<1>9. CASE UseTab
  BY <1>9 DEF UseTab, FreesTab, Misuse
<1>10. CASE UseFreed
  BY <1>10 DEF UseFreed, Misuse
<1>11. CASE ScanAgain
  BY <1>11 DEF ScanAgain
<1>12. CASE GiveUp
  BY <1>12 DEF GiveUp
<1>13. CASE SwitchFound
  BY <1>13 DEF SwitchFound
<1>14. CASE PreLogin
  BY <1>14 DEF PreLogin, BeginLogin, Return, Failure
<1>15. CASE Mark
  BY <1>15 DEF Mark
<1>16. CASE Enter
  BY <1>16 DEF Enter
<1>17. CASE While
  BY <1>17 DEF While
<1>18. CASE Run
  BY <1>18 DEF Run
<1>19. CASE Unknown
  BY <1>19 DEF Unknown
<1>20. CASE Quit
  BY <1>20 DEF Quit
<1>21. CASE DoLogin
  BY <1>21 DEF DoLogin, BeginLogin, Return, Failure
<1>22. CASE OtherCommand
  BY <1>22 DEF OtherCommand
<1>23. CASE FreeWord
  BY <1>23 DEF FreeWord
<1>24. CASE ClearWord
  BY <1>24 DEF ClearWord
<1>25. CASE FreeDone
  BY <1>25 DEF FreeDone
<1>26. CASE StopNetwork
  BY <1>26 DEF StopNetwork
<1>27. CASE FreeNga
  BY <1>27 DEF FreeNga, Return
<1>28. CASE Terminal
  BY <1>28 DEF Terminal
<1>29. CASE Exit
  BY <1>29 DEF Exit
<1>30. CASE ReadLine
  BY <1>30 DEF ReadLine, explode
<1>31. CASE EndOfInput
  BY <1>31 DEF EndOfInput
<1>32. CASE Password
  BY <1>32 DEF Password
<1>33. CASE Confirm
  BY <1>33 DEF Confirm
<1>34. ASSUME NEW s \in Signal, Interrupt(s) PROVE WordInv'
  <2>1. at = "clear" => Here = "clear"
    BY DEF Here
  <2>2. at' \in {"enter", "close"} /\ word' = 1 /\ com' = com /\ batch' = batch
    BY <1>34 DEF Interrupt
  <2>3. hits' = hits \cup {Here}
    BY <1>34 DEF Interrupt
  <2> QED
    BY <2>1, <2>2, <2>3
<1>35. CASE UNCHANGED vars
  BY <1>35 DEF vars
<1> QED
  BY <1>1, <1>2, <1>3, <1>4, <1>5, <1>6, <1>7, <1>8, <1>9, <1>10, <1>11,
     <1>12, <1>13, <1>14, <1>15, <1>16, <1>17, <1>18, <1>19, <1>20, <1>21,
     <1>22, <1>23, <1>24, <1>25, <1>26, <1>27, <1>28, <1>29, <1>30, <1>31,
     <1>32, <1>33, <1>34, <1>35
  DEF Next, Library, Startup, Loop, End, User

\* The flag the handler tests says where main is.
LEMMA MainKept == TypeOK /\ MainInv /\ StmtInv /\ [Next]_vars => MainInv'
<1> SUFFICES ASSUME TypeOK, MainInv, StmtInv, [Next]_vars PROVE MainInv'
  OBVIOUS
<1> USE DEF TypeOK, MainInv, StmtInv, Running, Step, Login, Ending, Over, Misused,
          Command, Statement, Signal, Event, options, session, words, cli, signalVars
<1>1. CASE FreeTab
  BY <1>1 DEF FreeTab, FreesTab
<1>2. CASE TabNull
  BY <1>2 DEF TabNull
<1>3. CASE CountZero
  BY <1>3 DEF CountZero
<1>4. CASE Delog
  BY <1>4 DEF Delog, Return
<1>5. CASE ScanReplies
  BY <1>5 DEF ScanReplies, Return, Failure
<1>6. CASE ScanFill
  BY <1>6 DEF ScanFill, Return, Success
<1>7. CASE EndLogin
  BY <1>7 DEF EndLogin, Return, Success, Failure
<1>8. CASE Defaults
  BY <1>8 DEF Defaults, Return
<1>9. CASE UseTab
  BY <1>9 DEF UseTab, FreesTab, Misuse
<1>10. CASE UseFreed
  BY <1>10 DEF UseFreed, Misuse
<1>11. CASE ScanAgain
  BY <1>11 DEF ScanAgain
<1>12. CASE GiveUp
  BY <1>12 DEF GiveUp
<1>13. CASE SwitchFound
  BY <1>13 DEF SwitchFound
<1>14. CASE PreLogin
  BY <1>14 DEF PreLogin, BeginLogin, Return, Failure
<1>15. CASE Mark
  BY <1>15 DEF Mark
<1>16. CASE Enter
  BY <1>16 DEF Enter
<1>17. CASE While
  BY <1>17 DEF While
<1>18. CASE Run
  BY <1>18 DEF Run
<1>19. CASE Unknown
  BY <1>19 DEF Unknown
<1>20. CASE Quit
  BY <1>20 DEF Quit
<1>21. CASE DoLogin
  BY <1>21 DEF DoLogin, BeginLogin, Return, Failure
<1>22. CASE OtherCommand
  BY <1>22 DEF OtherCommand
<1>23. CASE FreeWord
  BY <1>23 DEF FreeWord
<1>24. CASE ClearWord
  BY <1>24 DEF ClearWord
<1>25. CASE FreeDone
  BY <1>25 DEF FreeDone
<1>26. CASE StopNetwork
  BY <1>26 DEF StopNetwork
<1>27. CASE FreeNga
  BY <1>27 DEF FreeNga, Return
<1>28. CASE Terminal
  BY <1>28 DEF Terminal
<1>29. CASE Exit
  BY <1>29 DEF Exit
<1>30. CASE ReadLine
  BY <1>30 DEF ReadLine, explode
<1>31. CASE EndOfInput
  BY <1>31 DEF EndOfInput
<1>32. CASE Password
  BY <1>32 DEF Password
<1>33. CASE Confirm
  BY <1>33 DEF Confirm
<1>34. ASSUME NEW s \in Signal, Interrupt(s) PROVE MainInv'
  <2>1. at \in {"terminal", "exit"} => Here = at
    BY DEF Here
  <2>2. nga = "freed" => hits' \cap {"terminal", "exit"} # {}
    BY <1>34, <2>1 DEF Interrupt
  <2>3. CASE Jumps
    BY <1>34, <2>2, <2>3 DEF Interrupt, Jumps
  <2>4. CASE ~Jumps
    BY <1>34, <2>2, <2>4 DEF Interrupt, Jumps
  <2> QED
    BY <2>3, <2>4
<1>35. CASE UNCHANGED vars
  BY <1>35 DEF vars
<1> QED
  BY <1>1, <1>2, <1>3, <1>4, <1>5, <1>6, <1>7, <1>8, <1>9, <1>10, <1>11,
     <1>12, <1>13, <1>14, <1>15, <1>16, <1>17, <1>18, <1>19, <1>20, <1>21,
     <1>22, <1>23, <1>24, <1>25, <1>26, <1>27, <1>28, <1>29, <1>30, <1>31,
     <1>32, <1>33, <1>34, <1>35
  DEF Next, Library, Startup, Loop, End, User

LEMMA StmtKept == TypeOK /\ MainInv /\ StmtInv /\ [Next]_vars => StmtInv'
<1> SUFFICES ASSUME TypeOK, MainInv, StmtInv, [Next]_vars PROVE StmtInv'
  OBVIOUS
<1> USE DEF TypeOK, MainInv, StmtInv, Step, Login, Ending, Over, Misused,
          Command, Statement, Signal, Event, options, session, words, cli, signalVars
<1>1. CASE FreeTab
  BY <1>1 DEF FreeTab, FreesTab
<1>2. CASE TabNull
  BY <1>2 DEF TabNull
<1>3. CASE CountZero
  BY <1>3 DEF CountZero
<1>4. CASE Delog
  BY <1>4 DEF Delog, Return
<1>5. CASE ScanReplies
  BY <1>5 DEF ScanReplies, Return, Failure
<1>6. CASE ScanFill
  BY <1>6 DEF ScanFill, Return, Success
<1>7. CASE EndLogin
  BY <1>7 DEF EndLogin, Return, Success, Failure
<1>8. CASE Defaults
  BY <1>8 DEF Defaults, Return
<1>9. CASE UseTab
  BY <1>9 DEF UseTab, FreesTab, Misuse
<1>10. CASE UseFreed
  BY <1>10 DEF UseFreed, Misuse
<1>11. CASE ScanAgain
  BY <1>11 DEF ScanAgain
<1>12. CASE GiveUp
  BY <1>12 DEF GiveUp
<1>13. CASE SwitchFound
  BY <1>13 DEF SwitchFound
<1>14. CASE PreLogin
  BY <1>14 DEF PreLogin, BeginLogin, Return, Failure
<1>15. CASE Mark
  BY <1>15 DEF Mark
<1>16. CASE Enter
  BY <1>16 DEF Enter
<1>17. CASE While
  BY <1>17 DEF While
<1>18. CASE Run
  BY <1>18 DEF Run
<1>19. CASE Unknown
  BY <1>19 DEF Unknown
<1>20. CASE Quit
  BY <1>20 DEF Quit
<1>21. CASE DoLogin
  BY <1>21 DEF DoLogin, BeginLogin, Return, Failure
<1>22. CASE OtherCommand
  BY <1>22 DEF OtherCommand
<1>23. CASE FreeWord
  BY <1>23 DEF FreeWord
<1>24. CASE ClearWord
  BY <1>24 DEF ClearWord
<1>25. CASE FreeDone
  BY <1>25 DEF FreeDone
<1>26. CASE StopNetwork
  BY <1>26 DEF StopNetwork
<1>27. CASE FreeNga
  BY <1>27 DEF FreeNga, Return
<1>28. CASE Terminal
  BY <1>28 DEF Terminal
<1>29. CASE Exit
  BY <1>29 DEF Exit
<1>30. CASE ReadLine
  BY <1>30 DEF ReadLine, explode
<1>31. CASE EndOfInput
  BY <1>31 DEF EndOfInput
<1>32. CASE Password
  BY <1>32 DEF Password
<1>33. CASE Confirm
  BY <1>33 DEF Confirm
<1>34. ASSUME NEW s \in Signal, Interrupt(s) PROVE StmtInv'
  BY <1>34 DEF Interrupt, Jumps, HandlerEcho, Here, Point
<1>35. CASE UNCHANGED vars
  BY <1>35 DEF vars
<1> QED
  BY <1>1, <1>2, <1>3, <1>4, <1>5, <1>6, <1>7, <1>8, <1>9, <1>10, <1>11,
     <1>12, <1>13, <1>14, <1>15, <1>16, <1>17, <1>18, <1>19, <1>20, <1>21,
     <1>22, <1>23, <1>24, <1>25, <1>26, <1>27, <1>28, <1>29, <1>30, <1>31,
     <1>32, <1>33, <1>34, <1>35
  DEF Next, Library, Startup, Loop, End, User

\* The statements of the library leave and restore the agreement of the table,
\* its count and the current switch.
LEMMA TabKept == TypeOK /\ MainInv /\ StmtInv /\ TabInv /\ [Next]_vars => TabInv'
<1> SUFFICES ASSUME TypeOK, MainInv, StmtInv, TabInv, [Next]_vars PROVE TabInv'
  OBVIOUS
<1> USE DEF TypeOK, MainInv, StmtInv, TabInv, TabUsed, TabWindow, Step, Login, Ending, Over, Misused,
          Command, Statement, Signal, Event, options, session, words, cli, signalVars
<1>1. CASE FreeTab
  BY <1>1 DEF FreeTab, FreesTab
<1>2. CASE TabNull
  BY <1>2 DEF TabNull
<1>3. CASE CountZero
  BY <1>3 DEF CountZero
<1>4. CASE Delog
  BY <1>4 DEF Delog, Return
<1>5. CASE ScanReplies
  BY <1>5 DEF ScanReplies, Return, Failure
<1>6. CASE ScanFill
  BY <1>6 DEF ScanFill, Return, Success
<1>7. CASE EndLogin
  BY <1>7 DEF EndLogin, Return, Success, Failure
<1>8. CASE Defaults
  BY <1>8 DEF Defaults, Return
<1>9. CASE UseTab
  BY <1>9 DEF UseTab, FreesTab, Misuse
<1>10. CASE UseFreed
  BY <1>10 DEF UseFreed, Misuse
<1>11. CASE ScanAgain
  BY <1>11 DEF ScanAgain
<1>12. CASE GiveUp
  BY <1>12 DEF GiveUp
<1>13. CASE SwitchFound
  BY <1>13 DEF SwitchFound
<1>14. CASE PreLogin
  BY <1>14 DEF PreLogin, BeginLogin, Return, Failure
<1>15. CASE Mark
  BY <1>15 DEF Mark
<1>16. CASE Enter
  BY <1>16 DEF Enter
<1>17. CASE While
  BY <1>17 DEF While
<1>18. CASE Run
  BY <1>18 DEF Run
<1>19. CASE Unknown
  BY <1>19 DEF Unknown
<1>20. CASE Quit
  BY <1>20 DEF Quit
<1>21. CASE DoLogin
  BY <1>21 DEF DoLogin, BeginLogin, Return, Failure
<1>22. CASE OtherCommand
  BY <1>22 DEF OtherCommand
<1>23. CASE FreeWord
  BY <1>23 DEF FreeWord
<1>24. CASE ClearWord
  BY <1>24 DEF ClearWord
<1>25. CASE FreeDone
  BY <1>25 DEF FreeDone
<1>26. CASE StopNetwork
  BY <1>26 DEF StopNetwork
<1>27. CASE FreeNga
  BY <1>27 DEF FreeNga, Return
<1>28. CASE Terminal
  BY <1>28 DEF Terminal
<1>29. CASE Exit
  BY <1>29 DEF Exit
<1>30. CASE ReadLine
  BY <1>30 DEF ReadLine, explode
<1>31. CASE EndOfInput
  BY <1>31 DEF EndOfInput
<1>32. CASE Password
  BY <1>32 DEF Password
<1>33. CASE Confirm
  BY <1>33 DEF Confirm
<1>34. ASSUME NEW s \in Signal, Interrupt(s) PROVE TabInv'
  BY <1>34 DEF Interrupt, Jumps, HandlerEcho, Here, Point
<1>35. CASE UNCHANGED vars
  BY <1>35 DEF vars
<1> QED
  BY <1>1, <1>2, <1>3, <1>4, <1>5, <1>6, <1>7, <1>8, <1>9, <1>10, <1>11,
     <1>12, <1>13, <1>14, <1>15, <1>16, <1>17, <1>18, <1>19, <1>20, <1>21,
     <1>22, <1>23, <1>24, <1>25, <1>26, <1>27, <1>28, <1>29, <1>30, <1>31,
     <1>32, <1>33, <1>34, <1>35
  DEF Next, Library, Startup, Loop, End, User

\* The echo is off only while a password is read.
LEMMA EchoKept == TypeOK /\ StmtInv /\ EchoInv /\ [Next]_vars => EchoInv'
<1> SUFFICES ASSUME TypeOK, StmtInv, EchoInv, [Next]_vars PROVE EchoInv'
  OBVIOUS
<1> USE DEF TypeOK, StmtInv, EchoInv, Step, Login, Ending, Over, Misused,
          Command, Statement, Signal, Event, options, session, words, cli, signalVars
<1>1. CASE FreeTab
  BY <1>1 DEF FreeTab, FreesTab
<1>2. CASE TabNull
  BY <1>2 DEF TabNull
<1>3. CASE CountZero
  BY <1>3 DEF CountZero
<1>4. CASE Delog
  BY <1>4 DEF Delog, Return
<1>5. CASE ScanReplies
  BY <1>5 DEF ScanReplies, Return, Failure
<1>6. CASE ScanFill
  BY <1>6 DEF ScanFill, Return, Success
<1>7. CASE EndLogin
  BY <1>7 DEF EndLogin, Return, Success, Failure
<1>8. CASE Defaults
  BY <1>8 DEF Defaults, Return
<1>9. CASE UseTab
  BY <1>9 DEF UseTab, FreesTab, Misuse
<1>10. CASE UseFreed
  BY <1>10 DEF UseFreed, Misuse
<1>11. CASE ScanAgain
  BY <1>11 DEF ScanAgain
<1>12. CASE GiveUp
  BY <1>12 DEF GiveUp
<1>13. CASE SwitchFound
  BY <1>13 DEF SwitchFound
<1>14. CASE PreLogin
  BY <1>14 DEF PreLogin, BeginLogin, Return, Failure
<1>15. CASE Mark
  BY <1>15 DEF Mark
<1>16. CASE Enter
  BY <1>16 DEF Enter
<1>17. CASE While
  BY <1>17 DEF While
<1>18. CASE Run
  BY <1>18 DEF Run
<1>19. CASE Unknown
  BY <1>19 DEF Unknown
<1>20. CASE Quit
  BY <1>20 DEF Quit
<1>21. CASE DoLogin
  BY <1>21 DEF DoLogin, BeginLogin, Return, Failure
<1>22. CASE OtherCommand
  BY <1>22 DEF OtherCommand
<1>23. CASE FreeWord
  BY <1>23 DEF FreeWord
<1>24. CASE ClearWord
  BY <1>24 DEF ClearWord
<1>25. CASE FreeDone
  BY <1>25 DEF FreeDone
<1>26. CASE StopNetwork
  BY <1>26 DEF StopNetwork
<1>27. CASE FreeNga
  BY <1>27 DEF FreeNga, Return
<1>28. CASE Terminal
  BY <1>28 DEF Terminal
<1>29. CASE Exit
  BY <1>29 DEF Exit
<1>30. CASE ReadLine
  BY <1>30 DEF ReadLine, explode
<1>31. CASE EndOfInput
  BY <1>31 DEF EndOfInput
<1>32. CASE Password
  BY <1>32 DEF Password
<1>33. CASE Confirm
  BY <1>33 DEF Confirm
<1>34. ASSUME NEW s \in Signal, Interrupt(s) PROVE EchoInv'
  BY <1>34 DEF Interrupt, Jumps, HandlerEcho, Here, Point
<1>35. CASE UNCHANGED vars
  BY <1>35 DEF vars
<1> QED
  BY <1>1, <1>2, <1>3, <1>4, <1>5, <1>6, <1>7, <1>8, <1>9, <1>10, <1>11,
     <1>12, <1>13, <1>14, <1>15, <1>16, <1>17, <1>18, <1>19, <1>20, <1>21,
     <1>22, <1>23, <1>24, <1>25, <1>26, <1>27, <1>28, <1>29, <1>30, <1>31,
     <1>32, <1>33, <1>34, <1>35
  DEF Next, Library, Startup, Loop, End, User

\* The search of pre_login ends at an entry with the address asked for.
LEMMA LimitKept == TypeOK /\ MainInv /\ StmtInv /\ LimitInv /\ [Next]_vars => LimitInv'
<1> SUFFICES ASSUME TypeOK, MainInv, StmtInv, LimitInv, [Next]_vars PROVE LimitInv'
  OBVIOUS
<1> USE DEF TypeOK, MainInv, StmtInv, LimitInv, RetriesKept, Step, Login, Ending, Over, Misused,
          Command, Statement, Signal, Event, options, session, words, cli, signalVars
<1>1. CASE FreeTab
  BY <1>1 DEF FreeTab, FreesTab
<1>2. CASE TabNull
  BY <1>2 DEF TabNull
<1>3. CASE CountZero
  BY <1>3 DEF CountZero
<1>4. CASE Delog
  BY <1>4 DEF Delog, Return
<1>5. CASE ScanReplies
  BY <1>5 DEF ScanReplies, Return, Failure
<1>6. CASE ScanFill
  BY <1>6 DEF ScanFill, Return, Success
<1>7. CASE EndLogin
  BY <1>7 DEF EndLogin, Return, Success, Failure
<1>8. CASE Defaults
  BY <1>8 DEF Defaults, Return
<1>9. CASE UseTab
  BY <1>9 DEF UseTab, FreesTab, Misuse
<1>10. CASE UseFreed
  BY <1>10 DEF UseFreed, Misuse
<1>11. CASE ScanAgain
  BY <1>11 DEF ScanAgain
<1>12. CASE GiveUp
  BY <1>12 DEF GiveUp
<1>13. CASE SwitchFound
  BY <1>13 DEF SwitchFound
<1>14. CASE PreLogin
  BY <1>14 DEF PreLogin, BeginLogin, Return, Failure, LastFound, Found
<1>15. CASE Mark
  BY <1>15 DEF Mark
<1>16. CASE Enter
  BY <1>16 DEF Enter
<1>17. CASE While
  BY <1>17 DEF While
<1>18. CASE Run
  BY <1>18 DEF Run
<1>19. CASE Unknown
  BY <1>19 DEF Unknown
<1>20. CASE Quit
  BY <1>20 DEF Quit
<1>21. CASE DoLogin
  BY <1>21 DEF DoLogin, BeginLogin, Return, Failure
<1>22. CASE OtherCommand
  BY <1>22 DEF OtherCommand
<1>23. CASE FreeWord
  BY <1>23 DEF FreeWord
<1>24. CASE ClearWord
  BY <1>24 DEF ClearWord
<1>25. CASE FreeDone
  BY <1>25 DEF FreeDone
<1>26. CASE StopNetwork
  BY <1>26 DEF StopNetwork
<1>27. CASE FreeNga
  BY <1>27 DEF FreeNga, Return
<1>28. CASE Terminal
  BY <1>28 DEF Terminal
<1>29. CASE Exit
  BY <1>29 DEF Exit
<1>30. CASE ReadLine
  BY <1>30 DEF ReadLine, explode
<1>31. CASE EndOfInput
  BY <1>31 DEF EndOfInput
<1>32. CASE Password
  BY <1>32 DEF Password
<1>33. CASE Confirm
  BY <1>33 DEF Confirm
<1>34. ASSUME NEW s \in Signal, Interrupt(s) PROVE LimitInv'
  BY <1>34 DEF Interrupt, Jumps, HandlerEcho, Here, Point
<1>35. CASE UNCHANGED vars
  BY <1>35 DEF vars
<1> QED
  BY <1>1, <1>2, <1>3, <1>4, <1>5, <1>6, <1>7, <1>8, <1>9, <1>10, <1>11,
     <1>12, <1>13, <1>14, <1>15, <1>16, <1>17, <1>18, <1>19, <1>20, <1>21,
     <1>22, <1>23, <1>24, <1>25, <1>26, <1>27, <1>28, <1>29, <1>30, <1>31,
     <1>32, <1>33, <1>34, <1>35
  DEF Next, Library, Startup, Loop, End, User

-----------------------------------------------------------------------------
SafeInv ==
  TypeOK /\ WordInv /\ MainInv /\ StmtInv /\ TabInv /\ EchoInv /\ LimitInv

THEOREM Inductive == Spec => []SafeInv
<1>1. Init => SafeInv
  BY TypeInit, OthersInit DEF SafeInv
<1>2. SafeInv /\ [Next]_vars => SafeInv'
  BY TypeKept, WordKept, MainKept, StmtKept, TabKept, EchoKept, LimitKept
  DEF SafeInv
<1> QED
  BY <1>1, <1>2, PTL DEF Spec

\* Every variable has its type; in particular the loop that frees the words
\* stays within com.
THEOREM TypeCorrect == Spec => []TypeOK
<1>1. SafeInv => TypeOK
  BY DEF SafeInv
<1> QED
  BY <1>1, Inductive, PTL

\* With -m no line is read but on the switch asked for.
THEOREM LoggedOnFirst == Spec => []RequestedSwitch
<1>1. SafeInv => RequestedSwitch
  BY DEF SafeInv, TypeOK, MainInv, LimitInv, RequestedSwitch, Running, Step, Login,
     Command, Ending, Over, Misused
<1> QED
  BY <1>1, Inductive, PTL

\* -r bounds the scans.
THEOREM RetriesBound == Spec => []RetriesKept
<1>1. SafeInv => RetriesKept
  BY DEF SafeInv, LimitInv
<1> QED
  BY <1>1, Inductive, PTL

\* The handler jumps only to a place that is marked.
THEOREM JumpSafe == Spec => []JumpIsMarked
<1>1. SafeInv => JumpIsMarked
  BY DEF SafeInv, MainInv, JumpIsMarked, Jumps, TypeOK
<1> QED
  BY <1>1, Inductive, PTL

\* No signal brings the prompt back after quit.
THEOREM QuitStays == Spec => []QuitIsFinal
<1>1. SafeInv => QuitIsFinal
  BY DEF SafeInv, MainInv, QuitIsFinal, Command, Ending, Over, Misused, Misused
<1> QED
  BY <1>1, Inductive, PTL

\* No signal is blocked at the prompt.
THEOREM SignalsStayOn == Spec => []SignalsHandled
<1>1. SafeInv => SignalsHandled
  BY DEF SafeInv, MainInv, SignalsHandled, Ending, Over, Misused
<1> QED
  BY <1>1, Inductive, PTL

\* The terminal echoes at the prompt and is left as it was found.
THEOREM EchoComesBack == Spec => []EchoRestored
<1>1. SafeInv => EchoRestored
  BY DEF SafeInv, TypeOK, EchoInv, EchoRestored, Misused
<1> QED
  BY <1>1, Inductive, PTL

\* However many signals come, and wherever they cut the program: a word freed
\* twice, a table that is not there and a session that is closed are used only
\* after a signal in one of the windows named.
THEOREM FreedOnce == Spec => []NotUsedAfterFree
<1>1. SafeInv => WordsFreedOnce /\ TabUsed
  BY DEF SafeInv, WordInv, TabInv
<1>2. SafeInv => SessionUsed
  BY DEF SafeInv, MainInv, SessionUsed
<1>3. SafeInv => NotUsedAfterFree
  BY <1>1, <1>2 DEF NotUsedAfterFree
<1> QED
  BY <1>3, Inductive, PTL
=============================================================================
