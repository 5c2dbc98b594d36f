------------------------- MODULE MCDeviceLifecycle -------------------------
(***************************************************************************)
(* Instances of DeviceLifecycle for TLC: one device being created and one  *)
(* that exists, a user of the bot and an administrator of the dashboard.   *)
(***************************************************************************)
EXTENDS DeviceLifecycle

CONSTANTS phone, laptop, user, admin

Both == {phone, laptop}
OnlyPhone == {phone}
OnlyLaptop == {laptop}
OnlyUser == {user}
OnlyAdmin == {admin}
Nobody == {}
=============================================================================
