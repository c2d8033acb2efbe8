-------------------------- MODULE PurpleAccountProofs --------------------------
(***************************************************************************)
(* Proofs about PurpleAccount, for any number of password requests.        *)
(*                                                                         *)
(* NeverStranded is not inductive: when the connection goes because of an  *)
(* error, it is the reconnection timer that saves the account, so Pending  *)
(* has to say that the timer is there as long as the error is.             *)
(***************************************************************************)
EXTENDS PurpleAccount, TLAPS

\* A connection with an error that is not fatal leaves a timer behind, and one
\* with a fatal error an account that is disabled.
Pending ==
    /\ error = "transient" => armed \/ missed
    /\ error = "fatal" => ~enabled \/ missed

LEMMA InitTypeOK == Init => TypeOK
<1>1. Init => reads \in 0..MaxReads
  BY AccountAssumption DEF Init
<1>2. QED
  BY <1>1 DEF Init, TypeOK

LEMMA NextTypeOK == TypeOK /\ [Next]_vars => TypeOK'
<1> SUFFICES ASSUME TypeOK, [Next]_vars
             PROVE  TypeOK'
  OBVIOUS
<1> USE AccountAssumption DEF TypeOK, Wanted, connVars, userVars, passwordVars, hostVars
<1>1. CASE Enable
  <2>1. reads' \in 0..MaxReads
    BY <1>1 DEF Enable, Connect, NewConnection
  <2>2. CASE error # "fatal" /\ online
    BY <2>1, <2>2, <1>1 DEF Enable, Connect, NewConnection
  <2>3. CASE error = "fatal" \/ ~online
    BY <2>1, <2>3, <1>1 DEF Enable
  <2>4. QED
    BY <2>2, <2>3
<1>2. CASE Disable
  BY <1>2 DEF Disable, SetDisabled, DisconnectIf, Disconnect
<1>3. CASE GoOnline
  <2>1. reads' \in 0..MaxReads
    BY <1>3 DEF GoOnline, Connect, NewConnection
  <2>2. CASE conn = "none"
    BY <2>1, <2>2, <1>3 DEF GoOnline, Connect, NewConnection
  <2>3. CASE conn # "none"
    BY <2>1, <2>3, <1>3 DEF GoOnline
  <2>4. QED
    BY <2>2, <2>3
<1>4. CASE GoOffline
  BY <1>4 DEF GoOffline, DisconnectIf, Disconnect
<1>5. CASE DialogOk
  BY <1>5 DEF DialogOk, NewConnection
<1>6. CASE DialogOkEmpty
  BY <1>6 DEF DialogOkEmpty
<1>7. CASE DialogCancel
  BY <1>7 DEF DialogCancel, SetDisabled, DisconnectIf, Disconnect
<1>8. ASSUME NEW ok \in BOOLEAN, GotPassword(ok)
      PROVE  TypeOK'
  <2>1. reads' \in 0..MaxReads
    BY <1>8 DEF GotPassword, NewConnection
  <2>2. UNCHANGED <<userVars, password, remember, armed, hostVars>>
    BY <1>8 DEF GotPassword
  <2>3. \/ NewConnection(Wanted) /\ UNCHANGED dialog
        \/ dialog' = TRUE /\ UNCHANGED <<connVars, missed>>
    BY <1>8 DEF GotPassword
  <2>4. CASE conn = "none" /\ NewConnection(Wanted) /\ UNCHANGED dialog
    BY <2>1, <2>2, <2>4 DEF NewConnection
  <2>5. CASE UNCHANGED <<connVars, missed>> /\ dialog' \in BOOLEAN
    BY <2>1, <2>2, <2>5
  <2>6. QED
    BY <2>3, <2>4, <2>5 DEF NewConnection
<1>9. CASE SetConnected
  BY <1>9 DEF SetConnected
<1>10. CASE TransientError
  BY <1>10 DEF TransientError
<1>11. CASE FatalError
  BY <1>11 DEF FatalError
<1>12. CASE DisconnectCb
  BY <1>12 DEF DisconnectCb, Disconnect
<1>13. CASE DoSignon
  <2>1. reads' \in 0..MaxReads
    BY <1>13 DEF DoSignon, Connect, NewConnection
  <2>2. QED
    BY <2>1, <1>13 DEF DoSignon, Connect, NewConnection
<1>14. CASE Suspend
  BY <1>14 DEF Suspend, DisconnectIf, Disconnect
<1>15. CASE Resume
  <2>1. reads' \in 0..MaxReads
    BY <1>15 DEF Resume, Connect, NewConnection
  <2>2. QED
    BY <2>1, <1>15 DEF Resume, Connect, NewConnection
<1>16. CASE ResumeChanged
  BY <1>16 DEF ResumeChanged
<1>17. CASE NetworkChanged
  BY <1>17 DEF NetworkChanged
<1>18. CASE Restart
  <2>1. reads' \in 0..MaxReads
    BY <1>18 DEF Restart, Disconnect
  <2>2. QED
    BY <2>1, <1>18 DEF Restart, Disconnect
<1>19. CASE UNCHANGED vars
  BY <1>19 DEF vars
<1>20. QED
  BY <1>1, <1>2, <1>3, <1>4, <1>5, <1>6, <1>7, <1>8, <1>9, <1>10, <1>11, <1>12, <1>13,
     <1>14, <1>15, <1>16, <1>17, <1>18, <1>19 DEF Next

AccountInv == ClosesItsOwn /\ Pending /\ NeverStranded /\ WantedOnly

LEMMA InitAccountInv == Init => AccountInv
BY DEF Init, AccountInv, ClosesItsOwn, Pending, NeverStranded, WantedOnly, Wanted

LEMMA NextAccountInv == TypeOK /\ TypeOK' /\ AccountInv /\ [Next]_vars => AccountInv'
<1> SUFFICES ASSUME TypeOK, TypeOK', AccountInv, [Next]_vars
             PROVE  AccountInv'
  OBVIOUS
<1> USE AccountAssumption DEF AccountInv, TypeOK, ClosesItsOwn, Pending, NeverStranded,
        WantedOnly, Wanted, connVars, userVars, passwordVars, hostVars
<1>1. CASE Enable
  BY <1>1 DEF Enable, Connect, NewConnection
<1>2. CASE Disable
  BY <1>2 DEF Disable, SetDisabled, DisconnectIf, Disconnect
<1>3. CASE GoOnline
  BY <1>3 DEF GoOnline, Connect, NewConnection
<1>4. CASE GoOffline
  BY <1>4 DEF GoOffline, DisconnectIf, Disconnect
<1>5. CASE DialogOk
  BY <1>5 DEF DialogOk, NewConnection
<1>6. CASE DialogOkEmpty
  BY <1>6 DEF DialogOkEmpty
<1>7. CASE DialogCancel
  BY <1>7 DEF DialogCancel, SetDisabled, DisconnectIf, Disconnect
<1>8. ASSUME NEW ok \in BOOLEAN, GotPassword(ok)
      PROVE  AccountInv'
  BY <1>8 DEF GotPassword, NewConnection
<1>9. CASE SetConnected
  BY <1>9 DEF SetConnected
<1>10. CASE TransientError
  BY <1>10 DEF TransientError
<1>11. CASE FatalError
  BY <1>11 DEF FatalError
<1>12. CASE DisconnectCb
  BY <1>12 DEF DisconnectCb, Disconnect
<1>13. CASE DoSignon
  BY <1>13 DEF DoSignon, Connect, NewConnection
<1>14. CASE Suspend
  BY <1>14 DEF Suspend, DisconnectIf, Disconnect
<1>15. CASE Resume
  BY <1>15 DEF Resume, Connect, NewConnection
<1>16. CASE ResumeChanged
  BY <1>16 DEF ResumeChanged
<1>17. CASE NetworkChanged
  BY <1>17 DEF NetworkChanged
<1>18. CASE Restart
  BY <1>18 DEF Restart, Disconnect
<1>19. CASE UNCHANGED vars
  BY <1>19 DEF vars
<1>20. QED
  BY <1>1, <1>2, <1>3, <1>4, <1>5, <1>6, <1>7, <1>8, <1>9, <1>10, <1>11, <1>12, <1>13,
     <1>14, <1>15, <1>16, <1>17, <1>18, <1>19 DEF Next

LEMMA AlwaysAccountInv == Spec => [](TypeOK /\ AccountInv)
BY InitTypeOK, NextTypeOK, InitAccountInv, NextAccountInv, PTL DEF Spec

\* The data of an account stay within their types, and an error is one of a
\* connection.
THEOREM AccountTypes == Spec => []TypeOK
BY AlwaysAccountInv, PTL DEF AccountInv

\* The callback that closes a connection after an error is pending exactly as
\* long as that connection is there, so it never closes another one.
THEOREM ErrorClosesItsOwn == Spec => []ClosesItsOwn
BY AlwaysAccountInv, PTL DEF AccountInv

\* Whatever user, keyring, network and protocol do: unless it let a chance pass,
\* an account that is wanted online has a connection, a request or a timer.
THEOREM AccountNeverStranded == Spec => []NeverStranded
BY AlwaysAccountInv, PTL DEF AccountInv

\* A connection the user does not want is one that came late or has failed.
THEOREM AccountWantedOnly == Spec => []WantedOnly
BY AlwaysAccountInv, PTL DEF AccountInv
=============================================================================
