----------------------------- MODULE PurpleAccount -----------------------------
(***************************************************************************)
(* How an account gets and keeps a connection: account.c asks keyring and  *)
(* user for the password, connection.c makes one PurpleConnection for it   *)
(* at a time and closes it after its first error, and gtkconn.c signs the  *)
(* account on again by a timer, or when a computer wakes up (Windows).     *)
(*                                                                         *)
(* The protocol is left open: a connection gets connected and has errors   *)
(* at any time.  So are the keyring, the user and the network.  How long   *)
(* the reconnection timer runs is left out, except that it runs longer     *)
(* than the callback that closes the connection that failed takes.         *)
(***************************************************************************)
EXTENDS Naturals

CONSTANT MaxReads   \* bound: password requests to the keyring at a time

ASSUME AccountAssumption == MaxReads \in Nat \ {0}

VARIABLES
    enabled,     \* the account is enabled in this user interface
    online,      \* its active status is an online one
    conn,        \* its PurpleConnection
    error,       \* kind of priv->error_info of that connection
    closing,     \* priv->disconnect_timeout of that connection
    reads,       \* password requests to the keyring under way
    dialog,      \* the dialog that asks for the password is open
    password,    \* priv->password is set
    remember,    \* priv->remember_pass
    armed,       \* auto_reconns has a timer for the account
    network,     \* purple_network_is_available
    suspended,   \* Windows is about to sleep, or has not reconnected since
    late,        \* history: connected although the user no longer wants to be
    missed       \* history: a chance to connect was let pass since the last one

connVars == <<conn, error, closing, late>>
userVars == <<enabled, online>>
passwordVars == <<reads, dialog, password, remember>>
hostVars == <<network, suspended>>
vars == <<userVars, connVars, passwordVars, armed, hostVars, missed>>

Wanted == enabled /\ online

TypeOK ==
    /\ enabled \in BOOLEAN /\ online \in BOOLEAN
    /\ conn \in {"none", "connecting", "connected"}
    /\ error \in {"none", "transient", "fatal"}
    /\ closing \in BOOLEAN
    /\ reads \in 0..MaxReads
    /\ dialog \in BOOLEAN /\ password \in BOOLEAN /\ remember \in BOOLEAN
    /\ armed \in BOOLEAN
    /\ network \in BOOLEAN /\ suspended \in BOOLEAN
    /\ late \in BOOLEAN /\ missed \in BOOLEAN
    /\ conn = "none" => error = "none"

\* A new account.
Init ==
    /\ enabled = FALSE /\ online \in BOOLEAN
    /\ conn = "none" /\ error = "none" /\ closing = FALSE
    /\ reads = 0 /\ dialog = FALSE /\ password = FALSE /\ remember = FALSE
    /\ armed = FALSE /\ network \in BOOLEAN /\ suspended = FALSE
    /\ late = FALSE /\ missed = FALSE

-----------------------------------------------------------------------------
(* Parts of handlers.                                                      *)

\* _purple_connection_new with a password: nothing if there is a connection.
NewConnection(wanted) ==
    \/ conn # "none" /\ UNCHANGED <<connVars, missed>>
    \/ conn = "none" /\ conn' = "connecting" /\ error' = "none"
       /\ late' = ~wanted /\ missed' = FALSE /\ UNCHANGED closing

\* purple_account_connect, when the account is enabled or not.
Connect(on) ==
    \/ ~on /\ UNCHANGED <<connVars, missed, reads>>
    \/ on /\ password /\ NewConnection(TRUE) /\ UNCHANGED reads
    \/ on /\ ~password /\ reads < MaxReads /\ reads' = reads + 1
       /\ UNCHANGED <<connVars, missed>>

\* Mutant: finalisation forgets the timeout.
DisconnectLeaky ==
    /\ conn' = "none" /\ error' = "none" /\ late' = FALSE
    /\ UNCHANGED closing

\* Mutant: the account keeps the error of the connection before.
DisconnectDirty ==
    /\ conn' = "none" /\ closing' = FALSE /\ late' = FALSE
    /\ UNCHANGED error

\* purple_account_disconnect drops the connection, which is finalised.
Disconnect == conn' = "none" /\ error' = "none" /\ closing' = FALSE /\ late' = FALSE

DisconnectIf(condition) ==
    \/ condition /\ conn # "none" /\ Disconnect
    \/ ~(condition /\ conn # "none") /\ UNCHANGED connVars

\* purple_account_set_enabled(FALSE): a connection with a fatal error closes
\* by itself.
SetDisabled == enabled' = FALSE /\ DisconnectIf(error # "fatal")

-----------------------------------------------------------------------------
(* The user.                                                               *)

\* While a connection with a fatal error waits for its end, enabling the
\* account does not connect it, and nothing does afterwards.
Enable ==
    /\ ~enabled /\ enabled' = TRUE
    /\ \/ error = "fatal" /\ missed' = TRUE /\ UNCHANGED <<connVars, reads>>
       \/ error # "fatal" /\ online /\ Connect(TRUE)
       \/ error # "fatal" /\ ~online /\ UNCHANGED <<connVars, missed, reads>>
    /\ UNCHANGED <<online, dialog, password, remember, armed, hostVars>>

Disable ==
    /\ enabled
    /\ SetDisabled
    /\ UNCHANGED <<online, passwordVars, armed, hostVars, missed>>

\* do_protocol_change_account_status with an online status.  Without a network
\* nothing is done, now or when the network is there.
GoOnline ==
    /\ online' = TRUE
    /\ \/ conn = "none" /\ network /\ Connect(enabled)
       \/ conn = "none" /\ ~network /\ missed' = TRUE /\ UNCHANGED <<connVars, reads>>
       \/ conn # "none" /\ UNCHANGED <<connVars, missed, reads>>
    /\ UNCHANGED <<enabled, dialog, password, remember, armed, hostVars>>

\* Mutant: a connection under way is left alone.
GoOfflineConnected ==
    /\ online /\ online' = FALSE
    /\ DisconnectIf(conn = "connected")
    /\ password' = (password /\ remember)
    /\ UNCHANGED <<enabled, reads, dialog, remember, armed, hostVars, missed>>

\* The same with an offline status.
GoOffline ==
    /\ online /\ online' = FALSE
    /\ DisconnectIf(TRUE)
    /\ password' = (password /\ remember)
    /\ UNCHANGED <<enabled, reads, dialog, remember, armed, hostVars, missed>>

\* request_password_ok_cb.
DialogOk ==
    /\ dialog /\ dialog' = FALSE
    /\ password' = TRUE /\ remember' \in BOOLEAN
    /\ NewConnection(Wanted)
    /\ UNCHANGED <<userVars, reads, armed, hostVars>>

\* The same with no password.
DialogOkEmpty ==
    /\ dialog /\ dialog' = FALSE
    /\ missed' = TRUE
    /\ UNCHANGED <<userVars, connVars, reads, password, remember, armed, hostVars>>

\* request_password_cancel_cb.
DialogCancel ==
    /\ dialog /\ dialog' = FALSE
    /\ SetDisabled
    /\ UNCHANGED <<online, reads, password, remember, armed, hostVars, missed>>

-----------------------------------------------------------------------------
(* The keyring, the protocol and the main loop.                            *)

\* purple_account_connect_got_password_cb: it does not look whether the account
\* is still to be connected.
GotPassword(ok) ==
    /\ reads > 0 /\ reads' = reads - 1
    /\ \/ ok /\ NewConnection(Wanted) /\ UNCHANGED dialog
       \/ ~ok /\ dialog' = TRUE /\ UNCHANGED <<connVars, missed>>
    /\ UNCHANGED <<userVars, password, remember, armed, hostVars>>

\* purple_connection_set_state; the user interface takes the reconnection timer
\* away, also that of an error the connection has had already.
SetConnected ==
    /\ conn = "connecting" /\ conn' = "connected"
    /\ armed' = FALSE
    /\ missed' = (missed \/ error = "transient")
    /\ UNCHANGED <<userVars, error, closing, late, passwordVars, hostVars>>

\* Mutant: the connection that failed is not closed.
TransientErrorOpen ==
    /\ conn # "none" /\ error = "none" /\ error' = "transient"
    /\ armed' = TRUE
    /\ UNCHANGED <<userVars, conn, closing, late, passwordVars, hostVars, missed>>

\* purple_connection_error: only the first error of a connection counts.
TransientError ==
    /\ conn # "none" /\ error = "none" /\ error' = "transient"
    /\ closing' = TRUE /\ armed' = TRUE
    /\ UNCHANGED <<userVars, conn, late, passwordVars, hostVars, missed>>

FatalError ==
    /\ conn # "none" /\ error = "none" /\ error' = "fatal"
    /\ closing' = TRUE /\ armed' = FALSE /\ enabled' = FALSE
    /\ UNCHANGED <<online, conn, late, passwordVars, hostVars, missed>>

\* purple_connection_disconnect_cb; its data is the account.
DisconnectCb ==
    /\ closing
    /\ Disconnect
    /\ UNCHANGED <<userVars, passwordVars, armed, hostVars, missed>>

\* Mutant: the test of the status is the wrong way round.
DoSignonOnly ==
    /\ armed /\ error = "none" /\ armed' = FALSE
    /\ UNCHANGED <<userVars, connVars, missed, passwordVars, hostVars>>

\* do_signon as the reconnection timer.
DoSignon ==
    /\ armed /\ error = "none" /\ armed' = FALSE
    /\ Connect(Wanted)
    /\ UNCHANGED <<userVars, dialog, password, remember, hostVars>>

-----------------------------------------------------------------------------
(* The computer.                                                           *)

\* pidgin_connection_network_disconnected, called before Windows sleeps.
Suspend ==
    /\ ~suspended /\ suspended' = TRUE
    /\ DisconnectIf(enabled)
    /\ UNCHANGED <<userVars, passwordVars, armed, network, missed>>

\* pidgin_connection_network_connected, a second after Windows woke up: the
\* timer of an enabled account goes, also if its connection has just failed.
Resume ==
    /\ suspended /\ suspended' = FALSE
    /\ armed' = (armed /\ ~enabled)
    /\ \/ conn = "none" /\ Connect(Wanted)
       \/ conn # "none" /\ missed' = (missed \/ (enabled /\ error = "transient"))
          /\ UNCHANGED <<connVars, reads>>
    /\ UNCHANGED <<userVars, dialog, password, remember, network>>

\* The network configuration changed since the computer first slept: gtkconn is
\* expected to reconnect, and does not.
ResumeChanged ==
    /\ suspended /\ suspended' = FALSE
    /\ missed' = TRUE
    /\ UNCHANGED <<userVars, connVars, passwordVars, armed, network>>

\* libpurple asks for the state of the network, and is not told of changes.
NetworkChanged ==
    /\ network' = ~network
    /\ UNCHANGED <<userVars, connVars, passwordVars, armed, suspended, missed>>

\* The program ends and is started: purple_accounts_restore_current_statuses.
Restart ==
    /\ Disconnect
    /\ dialog' = FALSE /\ password' = FALSE /\ armed' = FALSE /\ suspended' = FALSE
    /\ reads' = IF Wanted /\ network THEN 1 ELSE 0
    /\ missed' = (Wanted /\ ~network)
    /\ UNCHANGED <<userVars, remember, network>>

Next ==
    \/ Enable \/ Disable \/ GoOnline \/ GoOffline
    \/ DialogOk \/ DialogOkEmpty \/ DialogCancel
    \/ \E ok \in BOOLEAN : GotPassword(ok)
    \/ SetConnected \/ TransientError \/ FatalError \/ DisconnectCb \/ DoSignon
    \/ Suspend \/ Resume \/ ResumeChanged \/ NetworkChanged \/ Restart

Spec == Init /\ [][Next]_vars

\* GLib runs timers and idle callbacks, and a keyring answers.
FairSpec ==
    /\ Spec
    /\ WF_vars(DisconnectCb) /\ WF_vars(DoSignon)
    /\ WF_vars(\E ok \in BOOLEAN : GotPassword(ok))

-----------------------------------------------------------------------------
(* Properties *)

\* The callback that closes a connection knows the account only: it is pending
\* exactly while the account's connection is one with an error, and never
\* closes a later one (connection.c:480, 924).
ClosesItsOwn == closing <=> error # "none"

\* An enabled account with an online status is connected, or something is under
\* way that will connect it or asks the user to; except after one of the events
\* that let a chance pass (gtkconn.c:119, 147, account.c:243).
NeverStranded ==
    Wanted /\ conn = "none" /\ ~suspended /\ ~missed => reads > 0 \/ dialog \/ armed

\* No connection outlives the wish to have it, whatever timers, keyring answers
\* and dialogs come when; except one made with a password that came late, and
\* one that closes because of an error (protocols.c:279, account.c:1742).
WantedOnly == conn # "none" => Wanted \/ late \/ error # "none"

\* An account that stays wanted and lets no chance pass gets a connection
\* without an error again and again (gtkconn.c:105-128).
Reconnects ==
    <>[](Wanted /\ ~missed /\ ~suspended /\ ~dialog)
        => []<>(conn # "none" /\ error = "none")
=============================================================================
