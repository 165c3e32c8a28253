------------------------------ MODULE Lifecycle ------------------------------
(***************************************************************************)
(* The process of the server from its start to its exit: cmd/magic/        *)
(* main.go and setup.go, with the database session of store/postgres, the  *)
(* stores of store/store.go and the configuration of magic/configmanager.  *)
(*                                                                         *)
(* Two goroutines may call Shutdown, main and the one that listens, and    *)
(* they may do so together; Shutdown goes backwards through the closers it *)
(* finds and exits the process under the requests that are being served.   *)
(* (The goroutine on errorChan never runs: nothing is sent to it.)         *)
(*                                                                         *)
(* Unregistered and RequestsDone are used by no action: each is what a     *)
(* slip in the code would make of what follows it.                         *)
(***************************************************************************)
EXTENDS Integers, Sequences

CONSTANT Requests  \* the HTTP requests, each used once

VARIABLES
  stage,    \* what main does next
  built,    \* the parts that are ready
  pool,     \* the connections of the postgres client
  closers,  \* what Shutdown has to close
  halt,     \* the two callers of Shutdown: how many closers are left, the error they carry
  exit,     \* the exit code, "none" as long as the process runs
  signaled, \* has the process been sent a signal
  request   \* what each request is at

processVars == <<stage, built, pool, closers, halt, exit, signaled, request>>

Threads == {"main", "server"}
Calm == [left |-> -1, error |-> FALSE]

ProcessInit ==
  /\ stage = "configuration"
  /\ built = {}
  /\ pool = "none"
  /\ closers = << >>
  /\ halt = [t \in Threads |-> Calm]
  /\ exit = "none"
  /\ signaled = FALSE
  /\ request = [q \in Requests |-> "new"]

Alive == exit = "none"
Reach(s) == Alive /\ stage = s /\ halt["main"] = Calm

\* Shutdown takes the closers there are when it is called.
Halt(t, error) == halt' = [halt EXCEPT ![t] = [left |-> Len(closers), error |-> error]]

Fail == Halt("main", TRUE) /\ UNCHANGED <<stage, built, closers, exit, signaled, request>>
Pass(next, parts) ==
  /\ stage' = next
  /\ built' = built \union parts
  /\ UNCHANGED <<halt, exit, signaled, request>>

-----------------------------------------------------------------------------
(* Setup, in its order; a part that is optional may be left out. *)

\* The file, then the environment, then the values they set; no file will do.
SetupConfigManager ==
  /\ Reach("configuration")
  /\ Fail \/ (Pass("startup", {"config"}) /\ UNCHANGED closers)
  /\ UNCHANGED pool

\* The commands of exec_pre: a failing one stops the start unless told otherwise.
SetupStartup ==
  /\ Reach("startup")
  /\ Fail \/ (Pass("postgres", {}) /\ UNCHANGED closers)
  /\ UNCHANGED pool

\* The client and the store of the users hold the same pool.
Unregistered(list) == list
Registered(list) == Append(list, "pool")

\* gorm.Open fails, or a ping or a store fails and the client is closed, or all is there.
LeftOpen == "open"
SetupStoragePostgreSQL ==
  /\ Reach("postgres")
  /\ \/ Fail /\ pool' \in {"none", "closed"}
     \/ /\ Pass("r2", {"stores"})
        /\ pool' = LeftOpen
        /\ closers' = Registered(closers)

SetupStorageR2 ==
  /\ Reach("r2")
  /\ Fail \/ (\E parts \in {{}, {"r2"}} : Pass("repository", parts) /\ UNCHANGED closers)
  /\ UNCHANGED pool

\* NewUserStore finds the store that was made with the others; closing it closes the client.
SetupRepository ==
  /\ Reach("repository")
  /\ Pass("mailer", {"users"})
  /\ closers' = Append(closers, "pool")
  /\ UNCHANGED pool

SetupMailer ==
  /\ Reach("mailer")
  /\ Fail \/ (\E parts \in {{}, {"mailer"}} : Pass("router", parts) /\ UNCHANGED closers)
  /\ UNCHANGED pool

\* Without a JWT secret of 32 characters there is no router.
SetupGinRouter ==
  /\ Reach("router")
  /\ Fail \/ (Pass("wiring", {"jwt"}) /\ UNCHANGED closers)
  /\ UNCHANGED pool

\* main builds services and routes; the seeds may fail, the auth controller may not.
Wire ==
  /\ Reach("wiring")
  /\ Fail \/ (Pass("listening", {"listener"}) /\ UNCHANGED closers)
  /\ UNCHANGED pool

\* From now on a signal is main's to answer.
Notify ==
  /\ Reach("listening")
  /\ Pass("running", {})
  /\ UNCHANGED <<pool, closers>>

-----------------------------------------------------------------------------
(* The server and the end of the process. *)

\* ListenAndServe returns: the address is taken, or accepting fails for good.
ListenFails ==
  /\ Alive /\ "listener" \in built
  /\ built' = built \ {"listener"}
  /\ Halt("server", TRUE)
  /\ UNCHANGED <<stage, pool, closers, exit, signaled, request>>

\* A signal that comes before main waits for it kills the process, and so does a
\* second one once main has closed the channel: the send panics.
Signal ==
  /\ Alive /\ (signaled => halt["main"] # Calm)
  /\ signaled' = TRUE
  /\ IF stage = "running" /\ ~signaled THEN UNCHANGED exit ELSE exit' = "killed"
  /\ UNCHANGED <<stage, built, pool, closers, halt, request>>

Break ==
  /\ Reach("running") /\ signaled
  /\ Halt("main", FALSE)
  /\ UNCHANGED <<stage, built, pool, closers, exit, signaled, request>>

\* Closing a pool again does nothing.
CloseNext(t) ==
  /\ Alive /\ halt[t].left > 0
  /\ pool' = IF closers[halt[t].left] = "pool" THEN "closed" ELSE pool
  /\ halt' = [halt EXCEPT ![t].left = @ - 1]
  /\ UNCHANGED <<stage, built, closers, exit, signaled, request>>

\* os.Exit does not wait for the requests under way.
RequestsDone == \A q \in Requests : request[q] # "served"
MayExit == TRUE
Exit(t) ==
  /\ Alive /\ halt[t].left = 0 /\ MayExit
  /\ exit' = IF halt[t].error THEN "1" ELSE "0"
  /\ request' = [q \in Requests |-> IF request[q] = "served" THEN "cut" ELSE request[q]]
  /\ UNCHANGED <<stage, built, pool, closers, halt, signaled>>

-----------------------------------------------------------------------------
(* A request: it is accepted, uses the pool and is answered. *)

Serve(q) ==
  /\ Alive /\ "listener" \in built /\ request[q] = "new"
  /\ request' = [request EXCEPT ![q] = "served"]
  /\ UNCHANGED <<stage, built, pool, closers, halt, exit, signaled>>

Answer(q) ==
  /\ Alive /\ request[q] = "served"
  /\ request' = [request EXCEPT ![q] = IF pool = "open" THEN "answered" ELSE "no database"]
  /\ UNCHANGED <<stage, built, pool, closers, halt, exit, signaled>>

-----------------------------------------------------------------------------
Start ==
  \/ SetupConfigManager \/ SetupStartup \/ SetupStoragePostgreSQL \/ SetupStorageR2
  \/ SetupRepository \/ SetupMailer \/ SetupGinRouter \/ Wire \/ Notify
Stop(t) == CloseNext(t) \/ Exit(t)

ProcessNext ==
  \/ Start
  \/ ListenFails \/ Signal \/ Break
  \/ \E t \in Threads : Stop(t)
  \/ \E q \in Requests : Serve(q) \/ Answer(q)

ProcessSpec == ProcessInit /\ [][ProcessNext]_processVars

\* The goroutines run; nobody has to send a signal, and requests may take their time.
ProcessFairSpec == ProcessSpec /\ WF_processVars(Start) /\ WF_processVars(Break)
                   /\ \A t \in Threads : WF_processVars(Stop(t))

-----------------------------------------------------------------------------
\* Each variable has its type; no part is used before the one it is built from.
ProcessTypeOK ==
  /\ stage \in {"configuration", "startup", "postgres", "r2", "repository", "mailer", "router", "wiring",
               "listening", "running"}
  /\ built \subseteq {"config", "stores", "r2", "users", "mailer", "jwt", "listener"}
  /\ "listener" \in built => {"config", "stores", "users", "jwt"} \subseteq built
  /\ pool \in {"none", "open", "closed"}
  /\ closers \in Seq({"pool"}) /\ Len(closers) <= 2
  /\ halt \in [Threads -> [left : -1..2, error : BOOLEAN]]
  /\ exit \in {"none", "0", "1", "killed"} /\ signaled \in BOOLEAN
  /\ request \in [Requests -> {"new", "served", "answered", "no database", "cut"}]

\* Whichever step of the start fails, and if main and the listening goroutine
\* shut down together, the process does not exit by itself with the connections
\* open, and reports success only when it was asked to stop; no request is told
\* that there is no database before (setup.go:105-127, 387-428, main.go:80-82,
\* 264-284).
CleanExit ==
  /\ exit \in {"0", "1"} => pool # "open"
  /\ exit = "0" => signaled
  /\ (\E q \in Requests : request[q] = "no database") => \E t \in Threads : halt[t] # Calm

\* A process that was asked to stop, or whose server failed, stops: no caller of
\* Shutdown waits for the other or for a request.
Stops == signaled \/ halt["server"] # Calm ~> ~Alive
=============================================================================
