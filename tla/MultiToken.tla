----------------------------- MODULE MultiToken -----------------------------
(***************************************************************************)
(* The multitenant_provider plugin: every wallet may have several tokens   *)
(* that are valid at a time.  Their issue times are listed in a token      *)
(* record, made with the wallet or, for a wallet older than the plugin,    *)
(* with its first token; the wallet's own record has the latest issue time.*)
(***************************************************************************)
EXTENDS Naturals, Sequences

CONSTANTS
    Wallets,
    Older,      \* those that were there before the plugin
    Managed,    \* those whose key the agent has: no other key is asked for
    Tasks,      \* slots for concurrent calls
    Lifetime,   \* of a token
    MaxTime,    \* bound: the clock
    MaxTokens   \* bound: issue times in a list

VARIABLES
    now,
    latest,   \* jwt_iat of each wallet's record; 0: no token yet
    records,  \* token records of each wallet
    default,  \* the default list of issue times, one for all records
    issued,   \* tokens handed out
    task      \* calls in progress

vars == <<now, latest, records, default, issued, task>>

Idle       == [pc |-> "idle"]
WalletKeys == {"right", "wrong"}
Range(s)   == {s[i] : i \in DOMAIN s}
Record(list, key) == [iats |-> list, key |-> key]

Init ==
    /\ now = 1 /\ default = <<>> /\ issued = {}
    /\ latest = [w \in Wallets |-> 0]
    /\ records = [w \in Wallets |-> <<>>]
    /\ task = [t \in Tasks |-> Idle]

End(t) == task' = [task EXCEPT ![t] = Idle]
Tick ==
    /\ now < MaxTime /\ now' = now + 1
    /\ UNCHANGED <<latest, records, default, issued, task>>

-----------------------------------------------------------------------------
(* create_wallet and create_auth_token *)

\* create_wallet makes the record of a new wallet at once.
CreateWallet(t, w) ==
    /\ task[t] = Idle /\ w \notin Older /\ records[w] = <<>>
    /\ \A s \in Tasks : task[s] # Idle => task[s].wallet # w
    /\ task' = [task EXCEPT ![t] = [pc |-> "create", op |-> "wallet", wallet |-> w, key |-> "right"]]
    /\ UNCHANGED <<now, latest, records, default, issued>>

\* Without a record, or with more than one, another is made.
CreateToken(t, w, key) ==
    /\ task[t] = Idle /\ (w \in Older \/ records[w] # <<>>)
    /\ \A i \in DOMAIN records[w] : Len(records[w][i].iats) < MaxTokens /\ i < MaxTokens
    /\ task' = [task EXCEPT ![t] =
          IF Len(records[w]) # 1
          THEN [pc |-> "create", op |-> "token", wallet |-> w, key |-> key]
          ELSE [pc |-> "check", op |-> "token", wallet |-> w, key |-> key, at |-> 1,
                rec |-> records[w][1], own |-> TRUE]]
    /\ UNCHANGED <<now, latest, records, default, issued>>

\* A record that is made has the default list itself, and the hash of the key
\* that came with the call, if the agent does not have the wallet's.
CreateRecord(t) ==
    /\ task[t].pc = "create"
    /\ LET w   == task[t].wallet
           rec == Record(default, IF w \in Managed THEN "right" ELSE task[t].key)
       IN  /\ records' = [records EXCEPT ![w] = Append(@, rec)]
           /\ task' = [task EXCEPT ![t] =
                IF task[t].op = "wallet" THEN Idle
                ELSE [pc |-> "check", op |-> "token", wallet |-> w, key |-> task[t].key,
                      at |-> Len(records[w]) + 1, rec |-> rec, own |-> FALSE]]
    /\ UNCHANGED <<now, latest, default, issued>>

\* check_wallet_key, then the record of the wallet is saved, ...
Check(t) ==
    /\ task[t].pc = "check"
    /\ IF task[t].key # task[t].rec.key THEN End(t) /\ UNCHANGED latest
       ELSE /\ latest' = [latest EXCEPT ![task[t].wallet] = now]
            /\ task' = [task EXCEPT ![t] =
                 [pc |-> "save", op |-> "token", wallet |-> @.wallet, key |-> @.key,
                  at |-> @.at, rec |-> @.rec, own |-> @.own, iat |-> now]]
    /\ UNCHANGED <<now, records, default, issued>>
\* ... and the list that was read, with the new time.
SaveClaims(t) ==
    /\ task[t].pc = "save" /\ End(t)
    /\ LET w    == task[t].wallet
           list == Append(IF task[t].own THEN task[t].rec.iats ELSE default, task[t].iat)
       IN  /\ records' = [records EXCEPT ![w][task[t].at] = Record(list, task[t].rec.key)]
           /\ default' = IF task[t].own THEN default ELSE list
           /\ issued' = issued \cup {[wallet |-> w, iat |-> task[t].iat, key |-> task[t].key]}
    /\ UNCHANGED <<now, latest>>

-----------------------------------------------------------------------------
(* get_profile_for_token *)

Expired(k) == now >= k.iat + Lifetime
\* The key is checked, then the issue time is looked for, at last in the
\* record of the wallet.
Accepts(k) ==
    /\ ~Expired(k) /\ Len(records[k.wallet]) = 1
    /\ k.key = records[k.wallet][1].key
    /\ k.iat \in Range(records[k.wallet][1].iats) \/ k.iat = latest[k.wallet]

\* Bug: all issue times go with an expired one.
AllGone(list, iat) == <<>>
\* remove takes the first of its value from the list, if there is one.
Removed(list, iat) ==
    LET first(i) == list[i] = iat /\ \A j \in 1..(i - 1) : list[j] # iat
        at == CHOOSE i \in DOMAIN list : first(i)
    IN  SubSeq(list, 1, at - 1) \o SubSeq(list, at + 1, Len(list))
\* A token that has expired takes its time out of the list.
UseExpired(t, k) ==
    /\ task[t] = Idle /\ Expired(k) /\ Len(records[k.wallet]) = 1
    /\ k.iat \in Range(records[k.wallet][1].iats)
    /\ task' = [task EXCEPT ![t] =
          [pc |-> "drop", op |-> "use", wallet |-> k.wallet, rec |-> records[k.wallet][1],
           iat |-> k.iat]]
    /\ UNCHANGED <<now, latest, records, default, issued>>
Drop(t) ==
    /\ task[t].pc = "drop" /\ End(t)
    /\ records' = [records EXCEPT ![task[t].wallet][1].iats = Removed(task[t].rec.iats, task[t].iat)]
    /\ UNCHANGED <<now, latest, default, issued>>

Next ==
    \/ Tick
    \/ \E t \in Tasks :
          \/ \E w \in Wallets : CreateWallet(t, w)
          \/ \E w \in Wallets, key \in WalletKeys : CreateToken(t, w, key)
          \/ CreateRecord(t) \/ Check(t) \/ SaveClaims(t)
          \/ \E k \in issued : UseExpired(t, k)
          \/ Drop(t)
Spec == Init /\ [][Next]_vars

-----------------------------------------------------------------------------
TypeOK ==
    /\ latest \in [Wallets -> 0..MaxTime]
    /\ \A w \in Wallets : \A i \in DOMAIN records[w] : Range(records[w][i].iats) \subseteq 1..MaxTime

\* A token stays valid until it expires, whatever other tokens of the wallet
\* are issued, used or expire meanwhile (README.md:9, "allow multiple tokens
\* per wallet").
StaysValid == \A k \in issued : Expired(k) \/ Accepts(k)
=============================================================================
