----------------------------- MODULE Broadcaster -----------------------------
(***************************************************************************)
(* The BBS broadcasting utility's two threads (src/wallet/broadcaster/     *)
(* broadcaster.cpp).  main() starts main_impl on an async worker thread,   *)
(* waits for a termination signal, stops the global reactor if it is set   *)
(* and joins the worker.  The worker creates the reactor, validates its    *)
(* options (any failure returns), installs a GracefulIntHandler, posts the *)
(* news message, runs the reactor until it is stopped and finally sends    *)
(* SIGINT to its process group.                                            *)
(*                                                                         *)
(* Signals: a pending SIGINT is taken either by wait_for_termination in    *)
(* the main thread or, while it is installed, by the worker's              *)
(* GracefulIntHandler, which stops the reactor.  Reactor::stop is sticky:  *)
(* a stop requested before run() makes run() return.  The unsynchronised   *)
(* read of the global reactor at line 251 sees the value before or after   *)
(* the worker's write at line 71, whichever step came first.               *)
(***************************************************************************)
EXTENDS Naturals

CONSTANTS
  MaxUserSigints,  \* model bound: Ctrl-C presses by the user
  SigintAnytime    \* FALSE: the user presses Ctrl-C only once the reactor exists

VARIABLES
  mainPc,          \* "wait" | "stop" | "join" | "done"
  workerPc,        \* "start" | "options" | "scoped" | "running" | "return" | "done"
  reactorSet,      \* the global io::Reactor::Ptr is non-null
  stopRequested,   \* reactor->stop() was called
  sigints,         \* SIGINTs pending for the process
  userSigints      \* SIGINTs the user has sent

vars == <<mainPc, workerPc, reactorSet, stopRequested, sigints, userSigints>>

\* GracefulIntHandler gih lives from line 166 to the end of the try block
HandlerInstalled == workerPc \in {"scoped", "running"}

-----------------------------------------------------------------------------
(* worker thread: main_impl, then kill(0, SIGINT)                          *)

\* reactor = io::Reactor::create()
CreateReactor ==
  /\ workerPc = "start"
  /\ workerPc' = "options"
  /\ reactorSet' = TRUE
  /\ UNCHANGED <<mainPc, stopRequested, sigints, userSigints>>

\* parse and check the options, open the wallet: any failure or exception
\* returns; otherwise the handler is installed and transactions resumed
ParseOptions ==
  /\ workerPc = "options"
  /\ workerPc' \in {"return", "scoped"}
  /\ UNCHANGED <<mainPc, reactorSet, stopRequested, sigints, userSigints>>

\* connect, decode the private key (invalid: return -1) and send the message
SendNews ==
  /\ workerPc = "scoped"
  /\ workerPc' \in {"return", "running"}
  /\ UNCHANGED <<mainPc, reactorSet, stopRequested, sigints, userSigints>>

\* io::Reactor::get_Current().run() returns once the reactor is stopped
RunReactor ==
  /\ workerPc = "running"
  /\ stopRequested
  /\ workerPc' = "return"
  /\ UNCHANGED <<mainPc, reactorSet, stopRequested, sigints, userSigints>>

\* kill(0, SIGINT) after main_impl returns
KillGroup ==
  /\ workerPc = "return"
  /\ workerPc' = "done"
  /\ sigints' = sigints + 1
  /\ UNCHANGED <<mainPc, reactorSet, stopRequested, userSigints>>

\* GracefulIntHandler takes a pending SIGINT and stops the reactor
GracefulInt ==
  /\ HandlerInstalled
  /\ sigints > 0
  /\ sigints' = sigints - 1
  /\ stopRequested' = TRUE
  /\ UNCHANGED <<mainPc, workerPc, reactorSet, userSigints>>

-----------------------------------------------------------------------------
(* main thread                                                              *)

\* wait_for_termination(0) returns on a SIGINT
WaitForTermination ==
  /\ mainPc = "wait"
  /\ sigints > 0
  /\ sigints' = sigints - 1
  /\ mainPc' = "stop"
  /\ UNCHANGED <<workerPc, reactorSet, stopRequested, userSigints>>

\* mutant: the stop is not issued
StopReactorSkipped ==
  /\ mainPc = "stop"
  /\ mainPc' = "join"
  /\ UNCHANGED <<workerPc, reactorSet, stopRequested, sigints, userSigints>>

\* if (reactor) reactor->stop();
StopReactor ==
  /\ mainPc = "stop"
  /\ mainPc' = "join"
  /\ stopRequested' = (stopRequested \/ reactorSet)
  /\ UNCHANGED <<workerPc, reactorSet, sigints, userSigints>>

\* return f.get(): blocks until the worker has finished
Join ==
  /\ mainPc = "join"
  /\ workerPc = "done"
  /\ mainPc' = "done"
  /\ UNCHANGED <<workerPc, reactorSet, stopRequested, sigints, userSigints>>

-----------------------------------------------------------------------------
(* environment                                                             *)

\* the user presses Ctrl-C
UserSigint ==
  /\ userSigints < MaxUserSigints
  /\ SigintAnytime \/ reactorSet
  /\ mainPc # "done"
  /\ userSigints' = userSigints + 1
  /\ sigints' = sigints + 1
  /\ UNCHANGED <<mainPc, workerPc, reactorSet, stopRequested>>

Init ==
  /\ mainPc = "wait"
  /\ workerPc = "start"
  /\ reactorSet = FALSE
  /\ stopRequested = FALSE
  /\ sigints = 0
  /\ userSigints = 0

Worker == CreateReactor \/ ParseOptions \/ SendNews \/ RunReactor \/ KillGroup
Main == WaitForTermination \/ StopReactor \/ Join

Next == Worker \/ Main \/ GracefulInt \/ UserSigint

\* both threads are scheduled; the user is not obliged to press Ctrl-C
Fairness == WF_vars(Worker) /\ WF_vars(Main)

Spec == Init /\ [][Next]_vars /\ Fairness

-----------------------------------------------------------------------------

\* main/main_impl: once the user has pressed Ctrl-C, or main_impl has
\* returned on its own (bad options, no wallet, invalid key), the program
\* returns: the worker's kill(0, SIGINT) wakes the main thread, and the main
\* thread's stop of the global reactor ends the worker's run().
Terminates ==
  (userSigints > 0 \/ workerPc = "return") ~> (mainPc = "done")

=============================================================================
