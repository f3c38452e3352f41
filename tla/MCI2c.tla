------------------------------- MODULE MCI2c -------------------------------
(* The sensor with every temperature around zero, for the resolution that  *)
(* i2c.h states.                                                           *)
EXTENDS I2c

OneWord == {<<1, 128>>}

AroundZero == -12..12
============================================================================
