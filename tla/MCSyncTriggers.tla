---------------------------- MODULE MCSyncTriggers ----------------------------
(* Instances of the hooks for TLC. *)
EXTENDS TriggersProperties

Sets(initial, mutation, worker, background) ==
    [initialSync : initial, syncOnMutation : mutation,
     serviceWorker : worker, backgroundSync : background]

\* The worker with background synchronization, or the tab's own effect.
Background == Sets({TRUE}, {FALSE}, {TRUE}, {TRUE})
OwnEffect == Sets({FALSE}, {TRUE}, {FALSE}, {FALSE})
OneTrigger == Background \cup OwnEffect
=============================================================================
