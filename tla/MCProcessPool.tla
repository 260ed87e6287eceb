---------------------------- MODULE MCProcessPool ----------------------------
(* The two process pools of chapter 15.  Three children, so that one can    *)
(* die between two that live.                                               *)
EXTENDS Integers

CONSTANTS PROCESS_COUNT, MaxConnects, MaxDeaths, MaxStops

VARIABLES
  g_program, g_backlog, g_listenEdge, g_ppc, g_m_stop, g_m_pid,
  g_sub_process_counter, g_batch, g_psigs, g_psigpipe, g_proc, g_cpc, g_c_stop,
  g_cbatch, g_csigs, g_csigpipe, g_toChild, g_childEdge, g_sessions, g_cgis,
  g_clients, g_crashes, g_terms, g_sent

G == INSTANCE ProcessPool WITH
  N <- PROCESS_COUNT, MaxClients <- MaxConnects, MaxCrashes <- MaxDeaths,
  MaxTerms <- MaxStops,
  program <- g_program, backlog <- g_backlog, listenEdge <- g_listenEdge,
  ppc <- g_ppc, m_stop <- g_m_stop, m_pid <- g_m_pid,
  sub_process_counter <- g_sub_process_counter, batch <- g_batch,
  psigs <- g_psigs, psigpipe <- g_psigpipe, proc <- g_proc, cpc <- g_cpc,
  c_stop <- g_c_stop, cbatch <- g_cbatch, csigs <- g_csigs,
  csigpipe <- g_csigpipe, toChild <- g_toChild, childEdge <- g_childEdge,
  sessions <- g_sessions, cgis <- g_cgis, clients <- g_clients,
  crashes <- g_crashes, terms <- g_terms, sent <- g_sent

ASSUME MCProcessPoolAssumption == G!ProcessPoolAssumption

GenericSpec == G!FairSpec
-----------------------------------------------------------------------------
(* 15-1processpool.h, 15-2pool_cgi.cpp: the connections are shared out      *)
(* evenly among the children that live.                                     *)
EvenlySpread == G!EvenlySpread

(* A SIGTERM to the parent ends the whole pool, but for a child of the CGI  *)
(* server that overslept it.                                                *)
GenericTermStopsAll == G!TermStopsAll
=============================================================================
