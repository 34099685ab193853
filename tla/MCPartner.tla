----------------------------- MODULE MCPartner ------------------------------
EXTENDS Partner, TLC

CONSTANTS a, b

\* Twice the window, with one more message in fragments than fit in it.
Mix == a :> <<2, 1, 2, 2>> @@ b :> <<>>

\* One more than a window of three, so that three sends may be nacked at once.
OneWay == a :> <<1, 2, 1, 1>> @@ b :> <<>>

\* Messages both ways, so that they carry acks.
Few == a :> <<2, 1>> @@ b :> <<1>>
=============================================================================
