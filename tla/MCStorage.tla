------------------------------ MODULE MCStorage -------------------------------
(* Values for model-checking Storage: blocks of 2 bytes, 2 blocks a page, 4   *)
(* blocks a transfer, tables of 8 blocks (8, 16 and 32 blocks in the code);   *)
(* and, beside it, for the queues of the drives (NvmeQueue).                  *)
EXTENDS Storage, NvmeQueue

VARIABLE part

BusesDef ==
  {<<"other", "nvme", "nvme">>, <<"nvme", "bridge", "nvme", "other">>,
   <<"nvme", "nvme", "other">>}
NsListsDef == {<< >>, <<1>>, <<1, 2>>}
ReadsDef == [len : {1, 8, 11}, offset : {0, 3, 17}]

Header(s, n, z, U) == [signed |-> TRUE, start |-> s, count |-> n, size |-> z, used |-> U]

(* No table; one after the header, one further on; entries that end within   *)
(* blocks; entries past the buffer; one entry again and again, and more      *)
(* entries than room for them, the product having overflowed.                *)
GptsDef ==
  {[Header(2, 4, 2, {4}) EXCEPT !.signed = FALSE],
   Header(2, 6, 2, {4, 6, 12}), Header(3, 4, 4, {6, 18}),
   Header(3, 5, 3, {6, 9, 15}), Header(4, 3, 9, {8, 17}),
   Header(2, 3, 0, {4}), Header(5, 4, 4, {10, 14, 18, 22})}

MCInit ==
  \/ part = "drives" /\ Init /\ QueueInit /\ clean
  \/ part = "queue" /\ QueueInit /\ Init
       /\ buses = <<"other", "nvme", "nvme">> /\ ~ gpt.signed

MCNext ==
  \/ part = "drives" /\ Next /\ UNCHANGED <<queuevars, part>>
  \/ part = "queue" /\ QueueNext /\ UNCHANGED <<vars, part>>

MCSpec ==
  /\ MCInit /\ [][MCNext]_<<vars, queuevars, part>>
  /\ WF_queuevars(part = "queue" /\ Execute)
  /\ WF_queuevars(part = "queue" /\ Post)
  /\ WF_queuevars(part = "queue" /\ Take)
=============================================================================
