-------------------------------- MODULE MCText --------------------------------
(* Values for model-checking what text is made of, one part at a time: the    *)
(* string procedures on five bytes of memory, addresses of nine bits, and the *)
(* kernel's messages on a terminal of 4 x 3 characters.                       *)
EXTENDS Console, StrMemory, AddrUtil

VARIABLE part

MessagesDef ==
  {[level |-> "NONE", fmt |-> << <<"put", <<97>> >> >>],
   [level |-> "NONE", fmt |-> << <<"put", <<98, Newline>> >>, <<"d", <<10>> >> >>],
   [level |-> "WARN", fmt |-> << <<"s", <<99, Newline>> >>, <<"x", <<171>> >>,
                                 <<"S", <<100, 101>> >> >>],
   [level |-> "CRIT", fmt |-> << <<"d", <<-1>> >>, <<"c", <<102>> >>,
                                 <<"a", <<10>> >>, <<"b", <<5>> >> >>],
   [level |-> "INFO", fmt |-> << <<"b", <<-1>> >> >>]}

MCInit ==
  \/ part = "console" /\ ConInit /\ addr = 0
       /\ StrInit /\ mem = [i \in Addresses |-> NUL] /\ delim = 97
  \/ part = "strings" /\ StrInit /\ addr = 0 /\ ConInit
  \/ part = "addresses" /\ AddrInit /\ ConInit
       /\ StrInit /\ mem = [i \in Addresses |-> NUL] /\ delim = 97

MCNext ==
  \/ part = "console" /\ ConNext /\ UNCHANGED <<strvars, addr, part>>
  \/ part = "strings" /\ StrNext /\ UNCHANGED <<convars, addr, part>>
  \/ part = "addresses" /\ AddrNext /\ UNCHANGED <<convars, strvars, part>>

Spec == MCInit /\ [][MCNext]_<<convars, strvars, addr, part>>
=============================================================================
