----------------------------- MODULE Discovery -----------------------------
(***************************************************************************)
(* The two HTTP requests of PolestarApi.async_init and get_vehicles: where *)
(* the gRPC backend is, and which cars the account owns.  An answer is a   *)
(* record of what the code looks at; Failed stands for ApiError.           *)
(***************************************************************************)
EXTENDS Sequences, SequencesExt

CONSTANTS
  Cars,        \* the cars there are
  Failed

Endpoints == [status : {200, 500}, grpcHost : BOOLEAN]

\* An answer without a port means 443; without a host there is no endpoint.
DiscoverEndpoint(response) ==
  IF response.status = 200 /\ response.grpcHost THEN "endpoint" ELSE Failed

\* A record of the answer: a dict that may lack its vin, or no dict at all.
NoVin == "no vin"
NotADict == "not a dict"
Record == Cars \cup {NoVin, NotADict}

VehicleLists == [status : {200, 500}, errors : {"none", "empty", "some"}, cars : SeqOf(Record, 2)]

\* An empty list of errors is none; errors spoil an answer that has cars.
GraphqlError(response) == response.errors = "some"

BuildVehicleListOfAll(records) == ToSet(records)
BuildVehicleList(records) == ToSet(records) \ {NoVin, NotADict}

\* The cars the account lists, or {Failed}.
GetVehicles(response) ==
  IF response.status # 200 \/ GraphqlError(response) THEN {Failed}
  ELSE BuildVehicleList(response.cars)
=============================================================================
