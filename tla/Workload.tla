------------------------------ MODULE Workload ------------------------------
(***************************************************************************)
(* What the threads are told to do: the namespaces and flows of            *)
(* ConfigReader::load_host_config (config_reader.cpp), the requests that   *)
(* IOThreadSynthetic::generate_request makes of a flow, and the fields of  *)
(* the command that NVMeDriver::submit_rw_command makes of a request.      *)
(***************************************************************************)
EXTENDS Integers, Sequences

CONSTANTS
  Flash,       \* FlashConfig: numbers of dies, planes, blocks, pages, page_capacity
  Namespaces,  \* per namespace: how many channels and chips it has
  Flows,       \* per flow: nsid, request_size_mean, address_alignment
  U32          \* range of uint32_t

SectorSize == 512

\* In 32 bits, and with the pages of a block where the capacity of a page
\* belongs.
ChipCapacitySects ==
  ((Flash.dies * Flash.planes * Flash.blocks * Flash.pages * Flash.pages) % U32)
    \div SectorSize

\* config.namespaces: nsid to capacity_sects, counted from one.
NsCapacitySects ==
  [nsid \in DOMAIN Namespaces |->
     ChipCapacitySects * Namespaces[nsid].channels * Namespaces[nsid].chips]

\* Variant: the last position is one too far.
PositionsInclusive(f) == 0 .. NsCapacitySects[f.nsid]

\* What either distribution may return; on no sector at all, the uniform one
\* would return anything.
Positions(f) == 0 .. NsCapacitySects[f.nsid] - 1

\* generate_request, without the direction.
Requests(f) ==
  { [pos  |-> SectorSize * (IF f.alignment = 0 THEN p ELSE p - (p % f.alignment)),
     size |-> SectorSize * f.size] : p \in Positions(f) }

\* The command: blocks of 4096 bytes, the length one less and in 16 bits.
RwCommand(request) ==
  [slba   |-> request.pos \div 4096,
   length |-> (request.size \div 4096 - 1) % 65536]

\* The device's own capacity of a namespace, in bytes.
DeviceBytes(nsid) ==
  Flash.dies * Flash.planes * Flash.blocks * Flash.pages * Flash.page_capacity
    * Namespaces[nsid].channels * Namespaces[nsid].chips

\* main's loop over the flows ends with an error at one of no known namespace.
FlowsKnown == \A t \in DOMAIN Flows : Flows[t].nsid \in DOMAIN Namespaces
=============================================================================
