---------------------------- MODULE MCConstruct ----------------------------
(***************************************************************************)
(* Construct with numbers of four bits: amounts and fees at both ends of   *)
(* i64 and beyond, addresses and tokens of every sort, operations in any   *)
(* order, missing or twice.                                                *)
(***************************************************************************)
EXTENDS Construct, TLC

CONSTANTS a, b, c, o, x, mina, other, bad, memo, long

Op(type, account, amount, target) ==
  [type |-> type, account |-> account, amount |-> amount, target |-> target]
Account(address, token) == [address |-> address, token |-> token]

Payment(from, to, token, fee, dec, inc) ==
  {<<Op("fee_payment", Account(from, token), fee, None),
     Op("payment_source_dec", Account(from, token), dec, None),
     Op("payment_receiver_inc", Account(to, None), inc, None)>>}
Reordered(ops) == {<<ops[3], ops[1], ops[2]>>, <<ops[1], ops[2], ops[2]>>,
                   <<ops[1], ops[2]>>}

Transfers ==
  UNION {Payment(a, b, None, fee, dec, inc) :
           fee \in {-9, -8, -3, -1, 0}, dec \in {-9, -8, -2, 0, 3, None},
           inc \in {-8, -3, 0, 2, 8, 9}}
Accountings ==
  UNION {Payment(from, to, token, -3, -2, 2) :
           from \in {a, c, o, x}, to \in {a, b, c}, token \in {None, other, bad}}
Oddities ==
  UNION {Reordered(ops) : ops \in Payment(a, b, mina, -3, -2, 2)}
    \cup {<<Op("fee_payment", Account(a, None), -3, None),
            Op("payment_source_dec", Account(a, mina), -2, None),
            Op("payment_receiver_inc", Account(b, None), 2, None)>>,
          <<Op("fee_payment", None, -3, None), Op("payment_source_dec", None, -2, None),
            Op("payment_receiver_inc", Account(b, None), 2, None)>>}
Delegations ==
  {<<Op("fee_payment", Account(a, other), fee, None),
     Op("delegate_change", Account(from, other), None, to)>> :
     fee \in {-8, -3, 0}, from \in {a, b}, to \in {b, c, None}}

Plain == {<<Op("fee_payment", Account(a, None), -3, None),
            Op("payment_source_dec", Account(a, None), -2, None),
            Op("payment_receiver_inc", Account(b, None), 2, None)>>}

MCRequests ==
  [ops : Transfers \cup Accountings \cup Oddities \cup Delegations,
   valid_until : {None}, memo : {None, memo}]
  \cup [ops : Plain \cup Delegations, valid_until : {None, 2, 3, 4},
        memo : {None, EmptyMemo, memo, long}]

MCBestFees == {<<>>, <<0>>, <<1, 3, 4>>, <<0, 2, 6, 9>>}
=============================================================================
