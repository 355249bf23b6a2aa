----------------------------- MODULE MCDesktop -----------------------------
(* Desktop with the fairness of its main thread.  The scroll lock and Ctrl+C   *)
(* share nothing with the live state: they are used only without a client.    *)
EXTENDS Desktop

MCNext == Next /\ (client # "none" => monitor'.scrollLocked /\ ~ctrlC')

MCSpec == Init /\ [][MCNext]_vars /\ Fairness
=============================================================================
