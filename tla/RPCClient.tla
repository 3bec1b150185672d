----------------------------- MODULE RPCClient -----------------------------
(***************************************************************************)
(* The command-line client's parameter conversion (rpc/client.cpp): the  *)
(* table of (method, parameter index) pairs whose argument is parsed as   *)
(* JSON, and RPCConvertValues, which turns the command line's strings     *)
(* into the params array sent to the server.                              *)
(*                                                                         *)
(* A JSON value is a record [t, s]: t its type ("str", "num", "bool",      *)
(* "arr", "obj", "null") and s its content, abstracted to a name.  A      *)
(* command-line argument is a record [text, values]: text names the       *)
(* string, values is what UniValue::read makes of "[" text "]": the      *)
(* sequence of JSON values the text lists, or NotJson when it is not      *)
(* JSON (a bare word).                                                     *)
(***************************************************************************)
EXTENDS Integers, Sequences

CONSTANT NotJson    \* the text does not read as JSON

Json(t, s) == [t |-> t, s |-> s]

\* vRPCConvertParams: the (method, 0-based index) pairs to convert
vRPCConvertParams ==
    {<<"stop", 0>>, <<"setmocktime", 0>>, <<"getaddednodeinfo", 0>>,
     <<"setgenerate", 0>>, <<"setgenerate", 1>>, <<"generate", 0>>,
     <<"getnetworkhashps", 0>>, <<"getnetworkhashps", 1>>,
     <<"getnetworksolps", 0>>, <<"getnetworksolps", 1>>,
     <<"sendtoaddress", 1>>, <<"sendtoaddress", 4>>, <<"settxfee", 0>>,
     <<"getreceivedbyaddress", 1>>, <<"getreceivedbyaccount", 1>>,
     <<"listreceivedbyaddress", 0>>, <<"listreceivedbyaddress", 1>>,
     <<"listreceivedbyaddress", 2>>, <<"listreceivedbyaccount", 0>>,
     <<"listreceivedbyaccount", 1>>, <<"listreceivedbyaccount", 2>>,
     <<"getbalance", 1>>, <<"getbalance", 2>>, <<"getblockhash", 0>>,
     <<"move", 2>>, <<"move", 3>>, <<"sendfrom", 2>>, <<"sendfrom", 3>>,
     <<"listtransactions", 1>>, <<"listtransactions", 2>>,
     <<"listtransactions", 3>>, <<"listaccounts", 0>>,
     <<"listaccounts", 1>>, <<"walletpassphrase", 1>>,
     <<"getblocktemplate", 0>>, <<"listsinceblock", 1>>,
     <<"listsinceblock", 2>>, <<"sendmany", 1>>, <<"sendmany", 2>>,
     <<"sendmany", 4>>, <<"addmultisigaddress", 0>>,
     <<"addmultisigaddress", 1>>, <<"createmultisig", 0>>,
     <<"createmultisig", 1>>, <<"listunspent", 0>>,
     <<"listunspent", 1>>, <<"listunspent", 2>>, <<"getblock", 1>>,
     <<"getblockheader", 1>>, <<"gettransaction", 1>>,
     <<"getrawtransaction", 1>>, <<"createrawtransaction", 0>>,
     <<"createrawtransaction", 1>>, <<"createrawtransaction", 2>>,
     <<"createrawtransaction", 3>>, <<"signrawtransaction", 1>>,
     <<"signrawtransaction", 2>>, <<"sendrawtransaction", 1>>,
     <<"fundrawtransaction", 1>>, <<"gettxout", 1>>, <<"gettxout", 2>>,
     <<"gettxoutproof", 0>>, <<"lockunspent", 0>>, <<"lockunspent", 1>>,
     <<"importprivkey", 2>>, <<"importaddress", 2>>,
     <<"verifychain", 0>>, <<"verifychain", 1>>, <<"keypoolrefill", 0>>,
     <<"getrawmempool", 0>>, <<"estimatefee", 0>>,
     <<"estimatepriority", 0>>, <<"prioritisetransaction", 1>>,
     <<"prioritisetransaction", 2>>, <<"setban", 2>>, <<"setban", 3>>,
     <<"getspentinfo", 0>>, <<"getaddresstxids", 0>>,
     <<"getaddressbalance", 0>>, <<"getaddressdeltas", 0>>,
     <<"getaddressutxos", 0>>, <<"getaddressmempool", 0>>,
     <<"getblockhashes", 0>>, <<"getblockhashes", 1>>,
     <<"getblockhashes", 2>>, <<"getblockdeltas", 0>>,
     <<"zcrawjoinsplit", 1>>, <<"zcrawjoinsplit", 2>>,
     <<"zcrawjoinsplit", 3>>, <<"zcrawjoinsplit", 4>>,
     <<"zcbenchmark", 1>>, <<"zcbenchmark", 2>>,
     <<"getblocksubsidy", 0>>, <<"z_listaddresses", 0>>,
     <<"z_listreceivedbyaddress", 1>>, <<"z_listunspent", 0>>,
     <<"z_listunspent", 1>>, <<"z_listunspent", 2>>,
     <<"z_listunspent", 3>>, <<"z_getbalance", 1>>,
     <<"z_gettotalbalance", 0>>, <<"z_gettotalbalance", 1>>,
     <<"z_gettotalbalance", 2>>, <<"z_mergetoaddress", 0>>,
     <<"z_mergetoaddress", 2>>, <<"z_mergetoaddress", 3>>,
     <<"z_mergetoaddress", 4>>, <<"z_sendmany", 1>>,
     <<"z_sendmany", 2>>, <<"z_sendmany", 3>>,
     <<"z_shieldcoinbase", 2>>, <<"z_shieldcoinbase", 3>>,
     <<"z_getoperationstatus", 0>>, <<"z_getoperationresult", 0>>,
     <<"z_importkey", 1>>, <<"paxprice", 4>>, <<"paxprices", 3>>,
     <<"paxpending", 0>>, <<"notaries", 2>>, <<"minerids", 1>>,
     <<"kvsearch", 1>>, <<"kvupdate", 4>>, <<"z_importkey", 2>>,
     <<"z_importviewingkey", 2>>, <<"z_getpaymentdisclosure", 1>>,
     <<"z_getpaymentdisclosure", 2>>, <<"assetchainproof", 1>>,
     <<"crosschainproof", 1>>, <<"getproofroot", 2>>,
     <<"height_MoM", 1>>, <<"calc_MoM", 2>>, <<"definechain", 0>>,
     <<"getdefinedchains", 0>>, <<"sendreserve", 0>>,
     <<"z_setmigration", 0>>}

\* Mutant of convert: the parameter index is taken as 1-based.
convertOneBased(method, idx) == <<method, idx + 1>> \in vRPCConvertParams

\* CRPCConvertTable::convert, over the std::set the constructor fills
convert(method, idx) == <<method, idx>> \in vRPCConvertParams

\* ParseNonRFCJSONValue: read "[" text "]" and demand one element; it
\* throws "Error JSON:" otherwise
ParsesToOne(arg) == arg.values # NotJson /\ Len(arg.values) = 1

ParseNonRFCJSONValue(arg) == arg.values[1]

(* RPCConvertValues: argument idx is pushed as a JSON string when the     *)
(* table does not name (method, idx), and parsed as JSON when it does;   *)
(* one argument that does not parse fails the whole call.                 *)
RPCConvertValues(method, args) ==
    IF \E i \in DOMAIN args : convert(method, i - 1) /\ ~ParsesToOne(args[i])
    THEN [err |-> "Error JSON", params |-> <<>>]
    ELSE [err |-> "none",
          params |-> [i \in DOMAIN args |->
                        IF convert(method, i - 1) THEN ParseNonRFCJSONValue(args[i])
                        ELSE Json("str", args[i].text)]]

=============================================================================
