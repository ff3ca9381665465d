-------------------------- MODULE MCCronScheduler ---------------------------
(* TLC instances of CronScheduler.                                          *)
EXTENDS CronScheduler
=============================================================================
