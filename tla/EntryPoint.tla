----------------------------- MODULE EntryPoint -----------------------------
(***************************************************************************)
(* src/main.cpp and src/core/setup_wizard.cpp: the options of mcx,         *)
(* the questions of --setup over a standard input that may end anywhere,   *)
(* and the configuration that the server is then started with.  A line is  *)
(* empty, "yes", a valid network address, a number, or something else.     *)
(***************************************************************************)
EXTENDS Integers

CONSTANTS Empty, Yes, Address, Other, \* lines an operator may type
          Numbers,                    \* and the numbers
          DefaultPort, DefaultPlayers, LargestPort, MostPlayers
EntryAssumption == /\ DefaultPort \in 1..LargestPort /\ DefaultPlayers \in 1..MostPlayers
                   /\ Numbers \subseteq Int /\ {LargestPort, MostPlayers} \subseteq Nat

Options == {"none", "--demo", "--setup", "--version", "--update", "unknown"}
Words == {Empty, Yes, Address, Other}

VARIABLES
  pc,     \* the question asked, "serve" while a server runs, "end" with exit
  exit,   \* the process's exit code
  eof,    \* standard input has ended
  config, \* the wizard's config_
  terms,  \* termsAccepted
  server, \* the address, port and players of the running server
  file,   \* server.json
  typed   \* history: "yes" was typed to the terms
vars == <<pc, exit, eof, config, terms, server, file, typed>>

Unset == [ip |-> Empty, port |-> 0, players |-> 0]
Defaults == [ip |-> Address, port |-> DefaultPort, players |-> DefaultPlayers]

Init == /\ pc = "start" /\ exit = 0 /\ eof \in BOOLEAN /\ config = Defaults /\ terms = FALSE
        /\ server = Unset /\ file = Unset /\ typed = FALSE

To(label) == pc' = label /\ UNCHANGED server
Ends(code) == To("end") /\ exit' = code
Keeps == UNCHANGED <<config, terms, file, typed>>

---------------------------------------------------------------------------
(* main().  Without an argument it asks; at the end of input the answer is *)
(* an uninitialized character, read as either.                             *)
Main(option) ==
  /\ pc = "start" /\ UNCHANGED eof /\ Keeps
  /\ \/ option = "none" /\ To("ask") /\ UNCHANGED exit
     \/ option = "--setup" /\ To("terms") /\ UNCHANGED exit
     \/ option = "--update" /\ To("check") /\ UNCHANGED exit
     \/ option \in {"--demo", "--version"} /\ Ends(0)
     \/ option = "unknown" /\ Ends(1)
Asks == /\ pc = "ask" /\ UNCHANGED <<exit, eof>> /\ Keeps /\ (To("checkThenUsage") \/ To("usage"))
\* CheckForUpdates asks in turn whether to open the page.
Checked == \/ pc = "check" /\ Ends(0) /\ UNCHANGED eof /\ Keeps
           \/ pc = "checkThenUsage" /\ To("usage") /\ UNCHANGED <<exit, eof>> /\ Keeps
Usage == pc = "usage" /\ Ends(0) /\ UNCHANGED eof /\ Keeps

---------------------------------------------------------------------------
(* SetupWizard::Run, one question at a time.  getline gives Empty for ever *)
(* once the input has ended.                                               *)
Read(line) == eof => line = Empty
InputEnds == ~eof /\ eof' = TRUE /\ UNCHANGED <<pc, exit, config, terms, server, file, typed>>

\* Faulty variant: an empty line accepts.
TermsByDefault(line) == /\ pc = "terms" /\ Read(line) /\ terms' = TRUE /\ typed' = (line = Yes) /\ To("ip")
                        /\ UNCHANGED <<exit, eof, config, file>>
Terms(line) == /\ pc = "terms" /\ Read(line) /\ terms' = (line = Yes)
               /\ typed' = (line = Yes)
               /\ (IF line = Yes THEN To("ip") /\ UNCHANGED exit ELSE Ends(0))
               /\ UNCHANGED <<eof, config, file>>

Answer(line, default) == IF line = Empty THEN default ELSE line
ValidateIp(ip) == ip = Address
\* The first question offers what is configured; those after an invalid
\* answer offer "0.0.0.0".
Offers == IF pc = "ip" THEN config.ip ELSE Address
PromptIp(line) == /\ pc \in {"ip", "ipAgain"} /\ Read(line) /\ line \notin Numbers
                  /\ config' = [config EXCEPT !.ip = Answer(line, Offers)]
                  /\ To(IF ValidateIp(config'.ip) THEN "port" ELSE "ipAgain")
                  /\ UNCHANGED <<exit, eof, terms, file, typed>>

\* stoi throws on a word, and the question is repeated.
PortInRange(n) == n > 0 /\ n <= LargestPort
PromptPort(line) ==
  /\ pc = "port" /\ Read(line) /\ line \in Numbers \cup {Empty, Other}
  /\ IF line = Other THEN To("port") /\ UNCHANGED config
     ELSE LET n == Answer(line, config.port)
          IN IF PortInRange(n)
             THEN To("players") /\ config' = [config EXCEPT !.port = n % (LargestPort + 1)]
             ELSE To("port") /\ UNCHANGED config
  /\ UNCHANGED <<exit, eof, terms, file, typed>>
PlayersInRange(n) == n >= 1 /\ n <= MostPlayers
PromptPlayers(line) ==
  /\ pc = "players" /\ Read(line) /\ line \in Numbers \cup {Empty, Other}
  /\ IF line = Other THEN To("players") /\ UNCHANGED config
     ELSE LET n == Answer(line, config.players)
          IN IF PlayersInRange(n)
             THEN To("confirm") /\ config' = [config EXCEPT !.players = n]
             ELSE To("players") /\ UNCHANGED config
  /\ UNCHANGED <<exit, eof, terms, file, typed>>

\* GenerateConfigFile does not look whether the file could be opened.
Confirm(line) == /\ pc = "confirm" /\ Read(line) /\ line \notin Numbers
                 /\ IF Answer(line, Yes) = Yes
                    THEN To("serve") /\ file' \in {file, config} /\ UNCHANGED exit
                    ELSE Ends(0) /\ UNCHANGED file
                 /\ UNCHANGED <<eof, config, terms, typed>>

\* RunSetup hands the server two of the values; the server runs until it is
\* stopped.  Neither config.json nor server.json is ever read.
Started == server' = config
Serve == /\ pc = "serve" /\ pc' = "running" /\ Started
         /\ UNCHANGED <<exit, eof, config, terms, file, typed>>
ServerStops == pc = "running" /\ Ends(0) /\ UNCHANGED eof /\ Keeps

Setup == \E line \in Words \cup Numbers :
           Terms(line) \/ PromptIp(line) \/ PromptPort(line) \/ PromptPlayers(line) \/ Confirm(line)
Next == \/ \E option \in Options : Main(option)
        \/ Asks \/ Checked \/ Usage \/ InputEnds \/ Setup \/ Serve \/ ServerStops
Fairness == WF_vars(Setup) /\ WF_vars(Serve)
Spec == Init /\ [][Next]_vars /\ Fairness
---------------------------------------------------------------------------
(* Every variable has a value of its type; the exit code tells that the    *)
(* option was unknown and nothing else.                                    *)
TypeOK == /\ exit \in {0, 1} /\ eof \in BOOLEAN /\ config.ip \in Words
          /\ config.port \in 0..LargestPort /\ config.players \in 1..MostPlayers
          /\ exit = 1 => pc = "end" /\ file = Unset

(* Nothing is written and nothing is started unless "yes" was typed to the *)
(* terms: an input that ends there, or a default, is no consent.           *)
ConsentFirst == file # Unset \/ pc \in {"serve", "running"} => typed

(* A server that the wizard starts has a port that can be listened on, an  *)
(* address and a number of players, whatever was typed and in what order.  *)
Startable == pc = "running" => /\ server.port \in 1..LargestPort /\ ValidateIp(server.ip)
                               /\ server.players \in 1..MostPlayers

(* What is written is what runs, unless it could not be written at all.    *)
FileIsServer == pc = "running" /\ file # Unset => file = server

(* Once the input has ended the wizard comes to an end by itself: no       *)
(* question is repeated for ever.                                          *)
SetupEnds == eof /\ pc # "start" ~> pc \in {"ask", "check", "checkThenUsage", "usage", "running", "end"}
=============================================================================
